---- MODULE Spec2Model ----
(***************************************************************************)
(* The core of the finance backend: CashflowForecastUC and                 *)
(* DetectAnomaliesUC reading daily sales through                           *)
(* DynamoRepo.get_sales_series, GetKPIsUC, CreateCollectionReminderUC and  *)
(* the action log of DynamoRepo; the Lambda handlers in front of them,     *)
(* with require_scope; and batch_write_items of the seed tool.             *)
(*                                                                         *)
(* Specifications.  Spec: the two analytics use cases over every table of  *)
(* daily sales.  SpecCalls: one call of any of the four use cases.         *)
(* SpecLog: sequences of create_agent_action and list_agent_actions calls. *)
(* SpecConcurrent: reminder invocations interleaved step by step.          *)
(* SpecSeries: get_sales_series over the stored keys as text.              *)
(* SpecReads: sequences of the calls that only read.  SpecListActions:     *)
(* requests to the list-actions handler, also over a log of more than 100  *)
(* actions.  SpecHandlers: one request to the cashflow, the anomalies or   *)
(* the collection-reminder handler.  SpecSeed: one run of                  *)
(* batch_write_items.                                                      *)
(*                                                                         *)
(* Numbers.  Sale amounts are whole numbers (Python floats hold them       *)
(* exactly).  A value the code rounds to 2 decimals is held as the integer *)
(* number of hundredths (33.33 is 3333).  The mean, the variance and the   *)
(* z-scores are kept as exact fractions; |z| is compared and rounded       *)
(* through z^2, so that no square root has to be approximated.  TLC's      *)
(* integers are 32 bits wide: the scaling operators below divide before    *)
(* they multiply to stay inside that range.                                *)
(*                                                                         *)
(* Strings the code takes apart (the period) are sequences of one-         *)
(* character strings.                                                      *)
(***************************************************************************)
EXTENDS Integers, Sequences, FiniteSets

\* Bounds of the model.
NumDays == 4        \* calendar days, ending today, the table may hold a sale for

\* The inputs explored.
Amounts == {0, 100, 199}
Horizons == {1, 7, 30, 45, 90}
Today == NumDays
Dates == 1..NumDays

VARIABLES
    sales,       \* the SALES# items of the table: date -> amount
    pc,          \* "idle": no call in progress; "done": a call has ended
    call,        \* the use case called and its arguments
    repoCalls,   \* the days arguments of the get_sales_series calls of this call
    outcome,     \* what the call gave back: nothing yet, a result, an error
    kpis,        \* the KPI# items of the table: period -> item
    actions,     \* the ACTION# items of the table (the action log)
    rawSales,    \* SALES# items as stored, the date still the text of the key
    now,         \* the UTC clock, in ticks
    actionCalls, \* the create_agent_action calls of this call
    kpiCalls,    \* the period arguments of the get_kpis calls of this call
    raised,      \* the errors the repository raised during this call
    invocations, \* concurrent createReminder invocations: id -> its progress
    invoked,     \* the handlers and use cases run, and what they were given
    seeded       \* the items the seed tool has written to the table, in order

vars == <<sales, pc, call, repoCalls, outcome, kpis, actions, rawSales, now,
          actionCalls, kpiCalls, raised, invocations, invoked, seeded>>

\* what the analytics use cases neither read nor write
beside == <<kpis, actions, rawSales, now, actionCalls, kpiCalls, invocations,
           invoked, seeded>>

----------------------------------------------------------------------------
\* Arithmetic

Abs(x) == IF x < 0 THEN -x ELSE x

Max(a, b) == IF a >= b THEN a ELSE b

RECURSIVE SumSeq(_)
SumSeq(s) == IF s = <<>> THEN 0 ELSE Head(s) + SumSeq(Tail(s))

\* round(num/den), halves to the even neighbour (Python's round); den > 0, num >= 0
RoundHalfEven(num, den) ==
    LET q == num \div den
        r == num % den
    IN  IF 2 * r < den THEN q
        ELSE IF 2 * r > den THEN q + 1
        ELSE IF q % 2 = 0 THEN q ELSE q + 1

\* a/b > c/d for a, c >= 0 and b, d > 0, by comparing the continued fractions
\* (no product is formed, so nothing overflows)
RECURSIVE RatGreater(_, _, _, _)
RatGreater(a, b, c, d) ==
    LET qa == a \div b
        qc == c \div d
        ra == a % b
        rc == c % d
    IN  IF qa # qc THEN qa > qc
        ELSE IF ra = 0 THEN FALSE
        ELSE IF rc = 0 THEN TRUE
        ELSE RatGreater(d, rc, b, ra)

\* floor(40000 * num / den) for num >= 0, den > 0, in two steps of 200
Scale40000Floor(num, den) ==
    LET q1 == 200 * (num \div den) + (200 * (num % den)) \div den
        r1 == (200 * (num % den)) % den
    IN  200 * q1 + (200 * r1) \div den

\* the k with k^2 <= x < (k+1)^2, between lo and hi
RECURSIVE Bisect(_, _, _)
Bisect(x, lo, hi) ==
    IF hi - lo <= 1 THEN lo
    ELSE LET mid == (lo + hi) \div 2
         IN  IF mid * mid <= x THEN Bisect(x, mid, hi) ELSE Bisect(x, lo, mid)

FloorSqrt(x) == Bisect(x, 0, 46341)

\* round(100 * sqrt(num/den)): the nearest integer to r is floor((floor(2r) + 1) / 2)
RoundSqrt100(num, den) == (FloorSqrt(Scale40000Floor(num, den)) + 1) \div 2

\* round(x, 2) of x = num/den, in hundredths
Round2(num, den) == RoundHalfEven(100 * num, den)

----------------------------------------------------------------------------
\* DynamoRepo.get_sales_series

RECURSIVE SortByDate(_)
SortByDate(ds) ==
    IF ds = {} THEN <<>>
    ELSE LET first == CHOOSE d \in ds : \A e \in ds : d <= e
         IN  <<[date |-> first, amount |-> sales[first]]>> \o SortByDate(ds \ {first})

\* the stored points with start_date <= date <= end_date, ascending by date
GetSalesSeries(days) ==
    LET end_date == Today
        start_date == end_date - (days - 1)
    IN  SortByDate({d \in DOMAIN sales : start_date <= d /\ d <= end_date})

AmountsOf(sales_series) == [i \in 1..Len(sales_series) |-> sales_series[i].amount]

----------------------------------------------------------------------------
\* CashflowForecastUC

\* lookback_days = max(horizon_days * 2, 60)
LookbackDaysNoFloor(horizon_days) == horizon_days * 2
LookbackDays(horizon_days) == Max(horizon_days * 2, 60)

\* (mutant) the average taken over the last horizon_days points only
ForecastResultOverHorizon(horizon_days, sales_series) ==
    LET all == AmountsOf(sales_series)
        k == IF horizon_days < Len(all) THEN horizon_days ELSE Len(all)
        amounts == SubSeq(all, Len(all) - k + 1, Len(all))
    IN  [forecast_days |-> horizon_days,
         average_daily_cashflow |-> Round2(SumSeq(amounts), k),
         total_forecast |-> Round2(SumSeq(amounts) * horizon_days, k),
         historical_period_days |-> Len(sales_series)]

\* (mutant) the total projected from the rounded average
ForecastResultFromRounded(horizon_days, sales_series) ==
    LET amounts == AmountsOf(sales_series)
        n == Len(amounts)
    IN  [forecast_days |-> horizon_days,
         average_daily_cashflow |-> Round2(SumSeq(amounts), n),
         total_forecast |-> Round2(SumSeq(amounts), n) * horizon_days,
         historical_period_days |-> Len(sales_series)]

\* the result record of execute for a non-empty series
ForecastResult(horizon_days, sales_series) ==
    LET amounts == AmountsOf(sales_series)
        n == Len(amounts)
    IN  [forecast_days |-> horizon_days,
         average_daily_cashflow |-> Round2(SumSeq(amounts), n),
         total_forecast |-> Round2(SumSeq(amounts) * horizon_days, n),
         historical_period_days |-> Len(sales_series)]

\* (mutant) no check for an empty series: avg_daily falls to 0.0
ForecastOutcomeNoCheck(horizon_days, sales_series) ==
    IF sales_series = <<>>
    THEN [kind |-> "returned",
          result |-> [forecast_days |-> horizon_days, average_daily_cashflow |-> 0,
                      total_forecast |-> 0, historical_period_days |-> 0]]
    ELSE [kind |-> "returned", result |-> ForecastResult(horizon_days, sales_series)]

\* the check for an empty series, then the result
ForecastOutcome(horizon_days, sales_series) ==
    IF sales_series = <<>>
    THEN [kind |-> "raised", error |-> "ValueError",
          message |-> "No historical sales data available for forecast"]
    ELSE [kind |-> "returned", result |-> ForecastResult(horizon_days, sales_series)]

RepoFailure == [kind |-> "raised", error |-> "ClientError", message |-> "DynamoDB error"]

\* CashflowForecastUC.execute(horizon_days), the repository call included
Forecast(horizon_days, repoFails) ==
    /\ pc = "idle"
    /\ pc' = "done"
    /\ call' = [op |-> "forecast", horizon_days |-> horizon_days]
    /\ repoCalls' = <<LookbackDays(horizon_days)>>
    /\ outcome' = IF repoFails THEN RepoFailure
                  ELSE ForecastOutcome(horizon_days, GetSalesSeries(LookbackDays(horizon_days)))
    /\ raised' = IF repoFails THEN <<RepoFailure>> ELSE <<>>
    /\ UNCHANGED <<sales, beside>>

----------------------------------------------------------------------------
\* DetectAnomaliesUC

\* the threshold of the constructor, as a fraction num/den
Thresholds == {[num |-> 1, den |-> 1000], [num |-> 1, den |-> 2],
               [num |-> 3, den |-> 2], [num |-> 2, den |-> 1]}

LastPrefix == <<"l", "a", "s", "t", "_">>
LastD(number) == LastPrefix \o number \o <<"d">>

Periods ==
    {LastD(<<"9", "0">>), LastD(<<"6", "0">>), LastD(<<"3">>), LastD(<<"2">>),
     LastD(<<"0">>), LastD(<<"0", "3">>), LastD(<<"-", "5">>), LastD(<<"+", "3">>),
     LastD(<<" ", "2">>), LastD(<<"1", "_", "0">>), LastD(<<"_", "2">>),
     LastD(<<>>), LastD(<<"x">>), LastD(<<"2", "x">>), LastD(<<"2", ".", "5">>),
     LastD(<<"-">>), LastPrefix \o <<"9", "0">>, LastPrefix, <<"9", "0", "d">>,
     <<"L", "A", "S", "T", "_", "2", "d">>, <<"w", "e", "e", "k">>, <<>>}

DigitChars == <<"0", "1", "2", "3", "4", "5", "6", "7", "8", "9">>
IsDigit(c) == \E i \in 1..10 : DigitChars[i] = c
DigitVal(c) == (CHOOSE i \in 1..10 : DigitChars[i] = c) - 1

StartsWith(s, prefix) ==
    Len(s) >= Len(prefix) /\ SubSeq(s, 1, Len(prefix)) = prefix
EndsWith(s, suffix) ==
    Len(s) >= Len(suffix) /\ SubSeq(s, Len(s) - Len(suffix) + 1, Len(s)) = suffix

\* s.strip()
RECURSIVE Strip(_)
Strip(s) ==
    IF s = <<>> THEN s
    ELSE IF Head(s) = " " THEN Strip(Tail(s))
    ELSE IF s[Len(s)] = " " THEN Strip(SubSeq(s, 1, Len(s) - 1))
    ELSE s

Unsigned(s) == IF s # <<>> /\ Head(s) \in {"+", "-"} THEN Tail(s) ELSE s

\* int(s) accepts: blanks around, one sign, then digits with single underscores
\* between them
IsIntLiteral(s) ==
    LET body == Unsigned(Strip(s))
    IN  /\ body # <<>>
        /\ \A i \in 1..Len(body) : IsDigit(body[i]) \/ body[i] = "_"
        /\ IsDigit(body[1]) /\ IsDigit(body[Len(body)])
        /\ \A i \in 1..(Len(body) - 1) : ~(body[i] = "_" /\ body[i + 1] = "_")

RECURSIVE DigitsValue(_)
DigitsValue(body) ==
    IF body = <<>> THEN 0
    ELSE LET rest == DigitsValue(SubSeq(body, 1, Len(body) - 1))
             c == body[Len(body)]
         IN  IF c = "_" THEN rest ELSE 10 * rest + DigitVal(c)

\* int(s) for an s that IsIntLiteral
IntOf(s) ==
    LET t == Strip(s)
    IN  IF Head(t) = "-" THEN -DigitsValue(Unsigned(t)) ELSE DigitsValue(Unsigned(t))

DefaultPeriodDays == 60

\* DetectAnomaliesUC._parse_period_days
ParsePeriodDays(period) ==
    IF StartsWith(period, LastPrefix) /\ EndsWith(period, <<"d">>)
    THEN LET days_str == SubSeq(period, 6, Len(period) - 1)
         IN  IF IsIntLiteral(days_str) THEN IntOf(days_str) ELSE DefaultPeriodDays
    ELSE DefaultPeriodDays

RECURSIVE SumSquares(_)
SumSquares(s) == IF s = <<>> THEN 0 ELSE Head(s) * Head(s) + SumSquares(Tail(s))

\* stdev(amounts)^2 = ss / (n - 1), ss the sum of squared deviations from the mean,
\* as the fraction num/den
Variance(amounts) ==
    LET n == Len(amounts)
        s == SumSeq(amounts)
    IN  [num |-> n * SumSquares(amounts) - s * s, den |-> n * (n - 1)]

\* the sign of z_score
ZSign(amount, amounts) ==
    LET d == Len(amounts) * amount - SumSeq(amounts)
    IN  IF Variance(amounts).num = 0 THEN 0
        ELSE IF d > 0 THEN 1 ELSE IF d < 0 THEN -1 ELSE 0

\* z_score^2 as the fraction num/den, z_score being
\* (amount - mean_val) / std_dev if std_dev > 0 else 0.0
ZSquared(amount, amounts) ==
    LET n == Len(amounts)
        d == n * amount - SumSeq(amounts)
        v == Variance(amounts)
    IN  IF v.num > 0 THEN [num |-> d * d * (n - 1), den |-> n * v.num]
        ELSE [num |-> 0, den |-> 1]

\* (mutant) abs(z_score) >= self.threshold
ExceedsOrEqualsThreshold(amount, amounts, threshold) ==
    LET z2 == ZSquared(amount, amounts)
    IN  ~RatGreater(threshold.num * threshold.num, threshold.den * threshold.den,
                    z2.num, z2.den)

\* abs(z_score) > self.threshold
ExceedsThreshold(amount, amounts, threshold) ==
    LET z2 == ZSquared(amount, amounts)
    IN  RatGreater(z2.num, z2.den, threshold.num * threshold.num,
                   threshold.den * threshold.den)

\* round(z_score, 2), in hundredths
RoundedZ(amount, amounts) ==
    LET z2 == ZSquared(amount, amounts)
    IN  ZSign(amount, amounts) * RoundSqrt100(z2.num, z2.den)

\* (mutant) the deviation read off the rounded z_score
DeviationFromRounded(amount, amounts) ==
    IF RoundedZ(amount, amounts) > 0 THEN "high" ELSE "low"

\* "high" if z_score > 0 else "low", z_score not yet rounded
Deviation(amount, amounts) == IF ZSign(amount, amounts) > 0 THEN "high" ELSE "low"

AnomalyPoint(sale, amounts) ==
    [date |-> sale.date,
     amount |-> Round2(sale.amount, 1),
     z_score |-> RoundedZ(sale.amount, amounts),
     deviation |-> Deviation(sale.amount, amounts)]

\* the loop over sales_series: the anomalous points, in the order of the series
RECURSIVE CollectAnomalies(_, _, _)
CollectAnomalies(rest, amounts, threshold) ==
    IF rest = <<>> THEN <<>>
    ELSE IF ExceedsThreshold(Head(rest).amount, amounts, threshold)
         THEN <<AnomalyPoint(Head(rest), amounts)>>
              \o CollectAnomalies(Tail(rest), amounts, threshold)
         ELSE CollectAnomalies(Tail(rest), amounts, threshold)

SortKey(anomaly) == Abs(anomaly.z_score)

\* x put into an already sorted list, behind every element whose key is not smaller
RECURSIVE InsertBySignificance(_, _)
InsertBySignificance(sorted, x) ==
    IF sorted = <<>> THEN <<x>>
    ELSE IF SortKey(Head(sorted)) >= SortKey(x)
         THEN <<Head(sorted)>> \o InsertBySignificance(Tail(sorted), x)
         ELSE <<x>> \o sorted

\* (mutant) sorted ascending, then reversed: equal keys end in reverse input order
RECURSIVE InsertAscending(_, _)
InsertAscending(sorted, x) ==
    IF sorted = <<>> THEN <<x>>
    ELSE IF SortKey(Head(sorted)) <= SortKey(x)
         THEN <<Head(sorted)>> \o InsertAscending(Tail(sorted), x)
         ELSE <<x>> \o sorted

RECURSIVE SortAscending(_)
SortAscending(anomalies) ==
    IF anomalies = <<>> THEN <<>>
    ELSE InsertAscending(SortAscending(SubSeq(anomalies, 1, Len(anomalies) - 1)),
                         anomalies[Len(anomalies)])

SortThenReverse(anomalies) ==
    LET asc == SortAscending(anomalies)
    IN  [i \in 1..Len(asc) |-> asc[Len(asc) + 1 - i]]

\* anomalies.sort(key=lambda x: abs(x["z_score"]), reverse=True): stable
RECURSIVE SortBySignificance(_)
SortBySignificance(anomalies) ==
    IF anomalies = <<>> THEN <<>>
    ELSE InsertBySignificance(
             SortBySignificance(SubSeq(anomalies, 1, Len(anomalies) - 1)),
             anomalies[Len(anomalies)])

AllIdentical(amounts) == Cardinality({amounts[i] : i \in 1..Len(amounts)}) < 2

\* the result record of execute for a series of at least 2 points
AnomalyResult(period, threshold, sales_series) ==
    LET amounts == AmountsOf(sales_series)
        n == Len(amounts)
        mean_sales == Round2(SumSeq(amounts), n)
    IN  IF AllIdentical(amounts)
        THEN [period |-> period,
              total_days |-> Len(sales_series),
              mean_sales |-> mean_sales,
              std_dev |-> 0,
              anomalies |-> <<>>,
              anomaly_count |-> 0]
        ELSE LET anomalies ==
                     SortBySignificance(CollectAnomalies(sales_series, amounts, threshold))
                 v == Variance(amounts)
             IN  [period |-> period,
                  total_days |-> Len(sales_series),
                  mean_sales |-> mean_sales,
                  std_dev |-> RoundSqrt100(v.num, v.den),
                  anomalies |-> anomalies,
                  anomaly_count |-> Len(anomalies)]

\* (mutant) the data requirement off by one, upwards
DetectOutcomeNeedsThree(period, threshold, sales_series) ==
    IF Len(sales_series) <= 2
    THEN [kind |-> "raised", error |-> "ValueError",
          message |-> "Insufficient data for anomaly detection (need at least 2 days)"]
    ELSE [kind |-> "returned", result |-> AnomalyResult(period, threshold, sales_series)]

\* (mutant) the data requirement of the forecast: only an empty series fails
DetectOutcomeNeedsOne(period, threshold, sales_series) ==
    IF sales_series = <<>>
    THEN [kind |-> "raised", error |-> "ValueError",
          message |-> "Insufficient data for anomaly detection (need at least 2 days)"]
    ELSE [kind |-> "returned", result |-> AnomalyResult(period, threshold, sales_series)]

\* the check for at least 2 points, then the result
DetectOutcome(period, threshold, sales_series) ==
    IF Len(sales_series) < 2
    THEN [kind |-> "raised", error |-> "ValueError",
          message |-> "Insufficient data for anomaly detection (need at least 2 days)"]
    ELSE [kind |-> "returned", result |-> AnomalyResult(period, threshold, sales_series)]

\* DetectAnomaliesUC(repo, threshold).execute(period), the repository call included
Detect(period, threshold, repoFails) ==
    /\ pc = "idle"
    /\ pc' = "done"
    /\ call' = [op |-> "detect", period |-> period, threshold |-> threshold]
    /\ repoCalls' = <<ParsePeriodDays(period)>>
    /\ outcome' = IF repoFails THEN RepoFailure
                  ELSE DetectOutcome(period, threshold,
                                     GetSalesSeries(ParsePeriodDays(period)))
    /\ raised' = IF repoFails THEN <<RepoFailure>> ELSE <<>>
    /\ UNCHANGED <<sales, beside>>

----------------------------------------------------------------------------
\* Text and dates of the reminder use case

\* Python's None, where a text argument may be missing: no text has an element
\* longer than one character
None == <<"None">>

\* not s
Falsy(s) == s = None \/ s = <<>>

\* not s or not s.strip()
Blank(s) == Falsy(s) \/ Strip(s) = <<>>

AllDigits(s) == \A i \in 1..Len(s) : IsDigit(s[i])

IsLeap(year) == (year % 4 = 0 /\ year % 100 # 0) \/ year % 400 = 0

DaysInMonth(year, month) ==
    IF month = 2 THEN (IF IsLeap(year) THEN 29 ELSE 28)
    ELSE IF month \in {4, 6, 9, 11} THEN 30 ELSE 31

IsDate(year, month, day) ==
    /\ 1 <= year /\ year <= 9999
    /\ 1 <= month /\ month <= 12
    /\ 1 <= day /\ day <= DaysInMonth(year, month)

\* n in decimal, zero-filled to width characters
RECURSIVE ZeroFill(_, _)
ZeroFill(n, width) ==
    IF width = 0 THEN <<>>
    ELSE ZeroFill(n \div 10, width - 1) \o <<DigitChars[(n % 10) + 1]>>

\* date.isoformat(): YYYY-MM-DD
IsoFormat(date) ==
    ZeroFill(date.year, 4) \o <<"-">> \o ZeroFill(date.month, 2) \o <<"-">>
        \o ZeroFill(date.day, 2)

\* the calendar-date forms of fromisoformat: YYYY-MM-DD and YYYYMMDD
IsIsoDate(s) ==
    \/ /\ Len(s) = 10 /\ s[5] = "-" /\ s[8] = "-"
       /\ AllDigits(SubSeq(s, 1, 4)) /\ AllDigits(SubSeq(s, 6, 7))
       /\ AllDigits(SubSeq(s, 9, 10))
       /\ IsDate(DigitsValue(SubSeq(s, 1, 4)), DigitsValue(SubSeq(s, 6, 7)),
                 DigitsValue(SubSeq(s, 9, 10)))
    \/ /\ Len(s) = 8 /\ AllDigits(s)
       /\ IsDate(DigitsValue(SubSeq(s, 1, 4)), DigitsValue(SubSeq(s, 5, 6)),
                 DigitsValue(SubSeq(s, 7, 8)))

\* the time forms HH, HH:MM and HH:MM:SS
IsIsoTime(s) ==
    /\ Len(s) \in {2, 5, 8}
    /\ \A i \in 1..Len(s) : IF i \in {3, 6} THEN s[i] = ":" ELSE IsDigit(s[i])
    /\ DigitsValue(SubSeq(s, 1, 2)) <= 23
    /\ Len(s) >= 5 => DigitsValue(SubSeq(s, 4, 5)) <= 59
    /\ Len(s) = 8 => DigitsValue(SubSeq(s, 7, 8)) <= 59

\* datetime.fromisoformat(s) does not raise: a date, or a date, one separating
\* character and a time.  Week dates, times without colons, fractions of a second
\* and UTC offsets, which no text explored here has, are left out.
FromIsoFormatAccepts(s) ==
    \/ IsIsoDate(s)
    \/ \E n \in {8, 10} :
          /\ Len(s) > n + 1
          /\ IsIsoDate(SubSeq(s, 1, n))
          /\ IsIsoTime(SubSeq(s, n + 2, Len(s)))

----------------------------------------------------------------------------
\* DynamoRepo.create_agent_action: the action log

\* Bounds of the action log
MaxActions == 3     \* items the action log may come to hold

\* uuid.uuid4(): an identifier no earlier call was given
ActionIds == 1..(MaxActions + 1)
FreshIds == ActionIds \ {a.action_id : a \in actions}

\* raised when nothing was wrong
NoError == [kind |-> "none"]

\* (mutant) the item keyed by the time of the call
ActionItemKeyedByTime(action_id, action, payload, performed_by, timestamp) ==
    [pk |-> <<"ACTION#", timestamp>>, action_id |-> action_id, action |-> action,
     payload |-> payload, performed_by |-> performed_by, timestamp |-> timestamp,
     created_at |-> timestamp]

\* the item of one call
ActionItem(action_id, action, payload, performed_by, timestamp) ==
    [pk |-> <<"ACTION#", action_id>>, action_id |-> action_id, action |-> action,
     payload |-> payload, performed_by |-> performed_by, timestamp |-> timestamp,
     created_at |-> timestamp]

\* (mutant) the log written back as the one new item
PutItemAlone(items, item) == {item}

\* table.put_item(Item=item): the item takes the place of any item of the same key
PutItem(items, item) == {a \in items : a.pk # item.pk} \cup {item}

\* the readings the clock may give next (the clock is not followed past MaxActions)
ClockReadings == {t \in {now, now + 1} : t <= MaxActions}

----------------------------------------------------------------------------
\* CreateCollectionReminderUC

\* the remind_date validated and stored: today's date when none was given
RemindDateOrToday(remind_date, today) ==
    IF Falsy(remind_date) THEN IsoFormat(today) ELSE remind_date

\* (mutant) performed_by validated before customer_id
ReminderErrorPerformedByFirst(customer_id, performed_by, remind_date, today) ==
    IF Blank(performed_by)
    THEN [kind |-> "raised", error |-> "ValueError",
          message |-> "performed_by is required and cannot be empty"]
    ELSE IF Blank(customer_id)
    THEN [kind |-> "raised", error |-> "ValueError",
          message |-> "customer_id is required and cannot be empty"]
    ELSE IF ~FromIsoFormatAccepts(RemindDateOrToday(remind_date, today))
    THEN [kind |-> "raised", error |-> "ValueError",
          message |-> "Invalid remind_date format",
          remind_date |-> RemindDateOrToday(remind_date, today)]
    ELSE NoError

\* (mutant) any remind_date accepted
ReminderErrorAnyDate(customer_id, performed_by, remind_date, today) ==
    IF Blank(customer_id)
    THEN [kind |-> "raised", error |-> "ValueError",
          message |-> "customer_id is required and cannot be empty"]
    ELSE IF Blank(performed_by)
    THEN [kind |-> "raised", error |-> "ValueError",
          message |-> "performed_by is required and cannot be empty"]
    ELSE NoError

\* the validation: customer_id, then performed_by, then the date
ReminderError(customer_id, performed_by, remind_date, today) ==
    IF Blank(customer_id)
    THEN [kind |-> "raised", error |-> "ValueError",
          message |-> "customer_id is required and cannot be empty"]
    ELSE IF Blank(performed_by)
    THEN [kind |-> "raised", error |-> "ValueError",
          message |-> "performed_by is required and cannot be empty"]
    ELSE IF ~FromIsoFormatAccepts(RemindDateOrToday(remind_date, today))
    THEN [kind |-> "raised", error |-> "ValueError",
          message |-> "Invalid remind_date format",
          remind_date |-> RemindDateOrToday(remind_date, today)]
    ELSE NoError

\* (mutant) the payload with the customer as given
ReminderPayloadUntrimmed(customer_id, invoice_id, remind_date, today) ==
    IF ~Falsy(invoice_id)
    THEN [customer_id |-> customer_id,
          remind_date |-> RemindDateOrToday(remind_date, today),
          invoice_id |-> Strip(invoice_id)]
    ELSE [customer_id |-> customer_id,
          remind_date |-> RemindDateOrToday(remind_date, today)]

\* (mutant) the payload always carrying invoice_id
ReminderPayloadAlwaysInvoice(customer_id, invoice_id, remind_date, today) ==
    [customer_id |-> Strip(customer_id),
     remind_date |-> RemindDateOrToday(remind_date, today),
     invoice_id |-> IF invoice_id = None THEN None ELSE Strip(invoice_id)]

\* the payload: invoice_id only "if invoice_id"
ReminderPayload(customer_id, invoice_id, remind_date, today) ==
    IF ~Falsy(invoice_id)
    THEN [customer_id |-> Strip(customer_id),
          remind_date |-> RemindDateOrToday(remind_date, today),
          invoice_id |-> Strip(invoice_id)]
    ELSE [customer_id |-> Strip(customer_id),
          remind_date |-> RemindDateOrToday(remind_date, today)]

\* (mutant) the repository called as soon as the two names are validated
ReminderSinkCallsBeforeDate(customer_id, invoice_id, remind_date, performed_by, today) ==
    IF Blank(customer_id) \/ Blank(performed_by) THEN <<>>
    ELSE <<[action |-> "collection_reminder",
            payload |-> ReminderPayload(customer_id, invoice_id, remind_date, today),
            performed_by |-> Strip(performed_by)]>>

\* the create_agent_action calls of one execute: one, once the validation passed
ReminderSinkCalls(customer_id, invoice_id, remind_date, performed_by, today) ==
    IF ReminderError(customer_id, performed_by, remind_date, today) # NoError THEN <<>>
    ELSE <<[action |-> "collection_reminder",
            payload |-> ReminderPayload(customer_id, invoice_id, remind_date, today),
            performed_by |-> Strip(performed_by)]>>

\* (mutant) a failure of the repository swallowed
ReminderOutcomeSwallowed(error, sinkFails, action_id) ==
    IF error # NoError THEN error
    ELSE IF sinkFails THEN [kind |-> "returned", result |-> None]
    ELSE [kind |-> "returned", result |-> action_id]

\* what execute gives back: the validation error, the repository's error, or the
\* action id the repository returned
ReminderOutcome(error, sinkFails, action_id) ==
    IF error # NoError THEN error
    ELSE IF sinkFails THEN RepoFailure
    ELSE [kind |-> "returned", result |-> action_id]

\* CreateCollectionReminderUC.execute, the repository call included
CreateReminder(customer_id, invoice_id, remind_date, performed_by, today, action_id, timestamp, sinkFails) ==
    /\ pc = "idle"
    /\ action_id \in FreshIds
    /\ timestamp \in ClockReadings
    /\ pc' = "done"
    /\ call' = [op |-> "createReminder", customer_id |-> customer_id,
                invoice_id |-> invoice_id, remind_date |-> remind_date,
                performed_by |-> performed_by, today |-> today]
    /\ LET error == ReminderError(customer_id, performed_by, remind_date, today)
           calls == ReminderSinkCalls(customer_id, invoice_id, remind_date,
                                      performed_by, today)
       IN  /\ actionCalls' = calls
           /\ raised' = IF calls # <<>> /\ sinkFails THEN <<RepoFailure>> ELSE <<>>
           /\ outcome' = ReminderOutcome(error, sinkFails, action_id)
           /\ IF calls = <<>> THEN UNCHANGED <<actions, now>>
              ELSE /\ now' = timestamp
                   /\ actions' = IF sinkFails THEN actions
                                 ELSE PutItem(actions,
                                              ActionItem(action_id, calls[1].action,
                                                         calls[1].payload,
                                                         calls[1].performed_by,
                                                         timestamp))
    /\ UNCHANGED <<sales, kpis, rawSales, repoCalls, kpiCalls, invocations, invoked,
                   seeded>>

----------------------------------------------------------------------------
\* GetKPIsUC and DynamoRepo.get_kpis

KpiFields == {"revenue", "gross_margin", "ar_total", "ar_over_60"}

\* float(item.get(field, 0))
KpiValue(item, field) == IF field \in DOMAIN item THEN item[field] ELSE 0

\* get_kpis as it would be if an incomplete item counted as no item at all
GetKpisResultWholeItemsOnly(period) ==
    IF period \in DOMAIN kpis /\ DOMAIN kpis[period] = KpiFields
    THEN kpis[period]
    ELSE [f \in KpiFields |-> 0]

\* the four values of the item KPI#period; zeros when there is no such item
GetKpisResult(period) ==
    IF period \notin DOMAIN kpis THEN [f \in KpiFields |-> 0]
    ELSE [f \in KpiFields |-> KpiValue(kpis[period], f)]

\* (mutant) get_kpis leaving the zeros it returns in the table
GetKpisStoringDefaults(period, repoFails) ==
    /\ pc = "idle"
    /\ pc' = "done"
    /\ call' = [op |-> "getKpis", period |-> period]
    /\ kpiCalls' = <<period>>
    /\ raised' = IF repoFails THEN <<RepoFailure>> ELSE <<>>
    /\ outcome' = IF repoFails THEN RepoFailure
                  ELSE [kind |-> "returned", result |-> GetKpisResult(period)]
    /\ kpis' = IF repoFails \/ period \in DOMAIN kpis THEN kpis
               ELSE [p \in DOMAIN kpis \cup {period} |->
                        IF p = period THEN GetKpisResult(period) ELSE kpis[p]]
    /\ UNCHANGED <<sales, actions, rawSales, now, repoCalls, actionCalls,
                   invocations, invoked, seeded>>

\* GetKPIsUC.execute(period), the repository call included
GetKpis(period, repoFails) ==
    /\ pc = "idle"
    /\ pc' = "done"
    /\ call' = [op |-> "getKpis", period |-> period]
    /\ kpiCalls' = <<period>>
    /\ raised' = IF repoFails THEN <<RepoFailure>> ELSE <<>>
    /\ outcome' = IF repoFails THEN RepoFailure
                  ELSE [kind |-> "returned", result |-> GetKpisResult(period)]
    /\ UNCHANGED <<sales, kpis, actions, rawSales, now, repoCalls, actionCalls,
                   invocations, invoked, seeded>>

----------------------------------------------------------------------------
\* Concurrent invocations of CreateCollectionReminderUC.execute: each runs in a
\* process of its own and shares nothing with the others but the table and the
\* clock.  One invocation goes through three steps: the validation and the
\* payload; uuid4 and the reading of the clock; put_item.

\* Bounds of the concurrent runs
NumInvocations == 2     \* invocations in flight together

Invocations == 1..NumInvocations

\* the ids invocations hold for a put_item still to come
HeldIds ==
    {invocations[i].action_id :
        i \in {j \in Invocations : invocations[j].stage = "stamped"}}

\* lines 64-89: validation, default date, payload
Begin(i, customer_id, invoice_id, remind_date, performed_by, today) ==
    /\ invocations[i].stage = "new"
    /\ LET error == ReminderError(customer_id, performed_by, remind_date, today)
           calls == ReminderSinkCalls(customer_id, invoice_id, remind_date,
                                      performed_by, today)
       IN  invocations' =
               [invocations EXCEPT ![i] =
                   IF calls = <<>>
                   THEN [stage |-> "done", outcome |-> error]
                   ELSE [stage |-> "ready", sinkCall |-> calls[1]]]
    /\ UNCHANGED <<sales, pc, call, repoCalls, outcome, kpis, actions, rawSales,
                   now, actionCalls, kpiCalls, raised, invoked, seeded>>

\* create_agent_action, lines 218-220: uuid4 and utcnow
Stamp(i, action_id, timestamp) ==
    /\ invocations[i].stage = "ready"
    /\ action_id \in FreshIds \ HeldIds
    /\ timestamp \in ClockReadings
    /\ now' = timestamp
    /\ invocations' =
           [invocations EXCEPT ![i] =
               [stage |-> "stamped", sinkCall |-> invocations[i].sinkCall,
                action_id |-> action_id, timestamp |-> timestamp]]
    /\ UNCHANGED <<sales, pc, call, repoCalls, outcome, kpis, actions, rawSales,
                   actionCalls, kpiCalls, raised, invoked, seeded>>

\* create_agent_action, lines 225-238, and the return of execute
Put(i, putFails) ==
    /\ invocations[i].stage = "stamped"
    /\ LET mine == invocations[i]
       IN  /\ actions' =
                  IF putFails THEN actions
                  ELSE PutItem(actions,
                               ActionItem(mine.action_id, mine.sinkCall.action,
                                          mine.sinkCall.payload,
                                          mine.sinkCall.performed_by, mine.timestamp))
           /\ invocations' =
                  [invocations EXCEPT ![i] =
                      [stage |-> "done", sinkCall |-> mine.sinkCall,
                       outcome |-> ReminderOutcome(NoError, putFails, mine.action_id)]]
    /\ UNCHANGED <<sales, pc, call, repoCalls, outcome, kpis, rawSales, now,
                   actionCalls, kpiCalls, raised, invoked, seeded>>

----------------------------------------------------------------------------
\* DynamoRepo.create_agent_action and DynamoRepo.list_agent_actions, called directly

\* DynamoRepo.create_agent_action(action, payload, performed_by)
CreateAgentAction(action, payload, performed_by, action_id, timestamp, putFails) ==
    /\ pc = "idle"
    /\ Cardinality(actions) < MaxActions
    /\ action_id \in FreshIds
    /\ timestamp \in ClockReadings
    /\ pc' = "done"
    /\ call' = [op |-> "createAgentAction", action |-> action, payload |-> payload,
                performed_by |-> performed_by]
    /\ now' = timestamp
    /\ raised' = IF putFails THEN <<RepoFailure>> ELSE <<>>
    /\ actions' = IF putFails THEN actions
                  ELSE PutItem(actions, ActionItem(action_id, action, payload,
                                                   performed_by, timestamp))
    /\ outcome' = IF putFails THEN RepoFailure
                  ELSE [kind |-> "returned", result |-> action_id]
    /\ UNCHANGED <<sales, kpis, rawSales, repoCalls, actionCalls, kpiCalls,
                   invocations, invoked, seeded>>

\* every item of the table, of whatever kind
TableItems ==
    {[pk |-> <<"SALES#", d>>, amount |-> sales[d]] : d \in DOMAIN sales}
        \cup {[pk |-> <<"KPI#", p>>, item |-> kpis[p]] : p \in DOMAIN kpis}
        \cup actions

Min(a, b) == IF a <= b THEN a ELSE b

\* table.scan(..., Limit=n): the first n items of the table in the order the
\* store keeps them, an order the code has no hold on; the filter is applied to
\* those n items
ScanPages(n) ==
    LET len == Min(n, Cardinality(TableItems))
    IN  {page \in [1..len -> TableItems] :
            \A i, j \in 1..len : i # j => page[i] # page[j]}

\* FilterExpression=Key("pk").begins_with("ACTION#"), then the dicts of the loop
IsActionItem(item) == item.pk[1] = "ACTION#"

ActionEntries(page) ==
    LET found == SelectSeq(page, IsActionItem)
    IN  [i \in 1..Len(found) |->
            [action_id |-> found[i].action_id, action |-> found[i].action,
             payload |-> found[i].payload, performed_by |-> found[i].performed_by,
             timestamp |-> found[i].timestamp]]

\* the place of entries[i] once sorted by timestamp descending: behind every
\* later timestamp and behind the equal ones that stood before it
PlaceByTimestamp(entries, i) ==
    1 + Cardinality({j \in 1..Len(entries) :
                        \/ entries[j].timestamp > entries[i].timestamp
                        \/ /\ entries[j].timestamp = entries[i].timestamp
                           /\ j < i})

\* actions.sort(key=timestamp, reverse=True): stable
SortByTimestamp(entries) ==
    [k \in 1..Len(entries) |->
        entries[CHOOSE i \in 1..Len(entries) : PlaceByTimestamp(entries, i) = k]]

\* what list_agent_actions returns from the page scanned: sorted, then actions[:limit]
ListAgentActionsResult(page, limit) ==
    LET sorted == SortByTimestamp(ActionEntries(page))
    IN  SubSeq(sorted, 1, Min(limit, Len(sorted)))

\* DynamoRepo.list_agent_actions(limit)
ListAgentActions(limit, page, scanFails) ==
    /\ pc = "idle"
    /\ page \in ScanPages(limit * 2)
    /\ pc' = "done"
    /\ call' = [op |-> "listAgentActions", limit |-> limit]
    /\ raised' = IF scanFails THEN <<RepoFailure>> ELSE <<>>
    /\ outcome' = IF scanFails THEN RepoFailure
                  ELSE [kind |-> "returned", result |-> ListAgentActionsResult(page, limit)]
    /\ UNCHANGED <<sales, kpis, actions, rawSales, now, repoCalls, actionCalls,
                   kpiCalls, invocations, invoked, seeded>>

----------------------------------------------------------------------------
\* DynamoRepo.get_sales_series over the items as they are stored: the date of an
\* item is the text after "SALES#" in its key

\* the month or the day of strptime's %m and %d: one digit, two digits, and for
\* the day a blank and a digit; 0 when the text is none of these
MonthField(text) ==
    IF Len(text) \in {1, 2} /\ AllDigits(text) /\ DigitsValue(text) \in 1..12
    THEN DigitsValue(text) ELSE 0

DayField(text) ==
    IF Len(text) \in {1, 2} /\ AllDigits(text) /\ DigitsValue(text) \in 1..31
    THEN DigitsValue(text)
    ELSE IF Len(text) = 2 /\ text[1] = " " /\ IsDigit(text[2]) /\ text[2] # "0"
    THEN DigitVal(text[2]) ELSE 0

\* the places where the second "-" of YYYY-M-D may stand
SecondDash(text) ==
    {j \in {7, 8} : j < Len(text) /\ text[j] = "-"
                      /\ MonthField(SubSeq(text, 6, j - 1)) # 0}

\* datetime.strptime(text, "%Y-%m-%d") does not raise
StrptimeAccepts(text) ==
    /\ Len(text) >= 8 /\ text[5] = "-" /\ AllDigits(SubSeq(text, 1, 4))
    /\ \E j \in SecondDash(text) :
          /\ DayField(SubSeq(text, j + 1, Len(text))) # 0
          /\ IsDate(DigitsValue(SubSeq(text, 1, 4)),
                    MonthField(SubSeq(text, 6, j - 1)),
                    DayField(SubSeq(text, j + 1, Len(text))))

\* datetime.strptime(text, "%Y-%m-%d").date(), for a text it accepts
StrptimeDate(text) ==
    LET j == CHOOSE k \in SecondDash(text) : TRUE
    IN  [year |-> DigitsValue(SubSeq(text, 1, 4)),
         month |-> MonthField(SubSeq(text, 6, j - 1)),
         day |-> DayField(SubSeq(text, j + 1, Len(text)))]

RECURSIVE DaysBeforeMonth(_, _)
DaysBeforeMonth(year, month) ==
    IF month = 1 THEN 0
    ELSE DaysBeforeMonth(year, month - 1) + DaysInMonth(year, month - 1)

\* date.toordinal(): the days from 0001-01-01, which is day 1
Ordinal(date) ==
    LET y == date.year - 1
    IN  y * 365 + (y \div 4) - (y \div 100) + (y \div 400)
            + DaysBeforeMonth(date.year, date.month) + date.day

\* datetime.utcnow().date() of the calls on stored items
TodayDate == [year |-> 2025, month |-> 10, day |-> Today]

\* the order of Python's str on the characters explored
CharOrder == <<" ", "-", "0", "1", "2", "3", "4", "5", "6", "7", "8", "9", "x">>
CharRank(c) == CHOOSE i \in 1..Len(CharOrder) : CharOrder[i] = c

\* s < t for two str
RECURSIVE TextLess(_, _)
TextLess(s, t) ==
    IF t = <<>> THEN FALSE
    ELSE IF s = <<>> THEN TRUE
    ELSE IF Head(s) = Head(t) THEN TextLess(Tail(s), Tail(t))
    ELSE CharRank(Head(s)) < CharRank(Head(t))

\* sales_series.sort(key=lambda x: x["date"]): the keys are str
RECURSIVE SortByDateText(_)
SortByDateText(texts) ==
    IF texts = {} THEN <<>>
    ELSE LET first == CHOOSE s \in texts : \A t \in texts \ {s} : TextLess(s, t)
         IN  <<[date |-> first, amount |-> rawSales[first]]>>
                 \o SortByDateText(texts \ {first})

\* the stored points strptime accepts with start_date <= sale_date <= end_date,
\* sorted by the text of their date
GetSalesSeriesStored(days) ==
    LET end_date == Ordinal(TodayDate)
        start_date == end_date - (days - 1)
    IN  SortByDateText({text \in DOMAIN rawSales :
                           /\ StrptimeAccepts(text)
                           /\ start_date <= Ordinal(StrptimeDate(text))
                           /\ Ordinal(StrptimeDate(text)) <= end_date})

\* DynamoRepo.get_sales_series(days) on the stored items
GetSalesSeriesCall(days, scanFails) ==
    /\ pc = "idle"
    /\ pc' = "done"
    /\ call' = [op |-> "getSalesSeries", days |-> days]
    /\ raised' = IF scanFails THEN <<RepoFailure>> ELSE <<>>
    /\ outcome' = IF scanFails THEN RepoFailure
                  ELSE [kind |-> "returned", result |-> GetSalesSeriesStored(days)]
    /\ UNCHANGED <<sales, kpis, actions, rawSales, now, repoCalls, actionCalls,
                   kpiCalls, invocations, invoked, seeded>>

----------------------------------------------------------------------------
\* The Lambda handlers.  A handler takes the event of one HTTP request and ends
\* with a response; what it ran on the way is noted in invoked.

\* shared/responses.py: the status and the body, the body before json.dumps
Response(status_code, body) ==
    [kind |-> "response", statusCode |-> status_code, body |-> body]
Ok(data, status_code) == Response(status_code, data)
BadRequest(message) == Response(400, [error |-> message])
Unauthorized(message) == Response(401, [error |-> message])
ServerError(message) == Response(500, [error |-> message])

\* event.get("queryStringParameters") or {}, then params.get(name, default): a
\* parameter the request does not have is None here
ParamOr(value, default) == IF value = None THEN default ELSE value

----------------------------------------------------------------------------
\* handlers/cashflow_forecast.py

DefaultHorizon == <<"3", "0">>
MaxHorizon == 365

\* (mutant) the horizon checked for its sign only
HorizonErrorNoCeiling(horizon_str) ==
    IF ~IsIntLiteral(horizon_str)
    THEN "Invalid horizon parameter: invalid literal for int() with base 10"
    ELSE IF IntOf(horizon_str) <= 0
    THEN "Invalid horizon parameter: Horizon must be positive"
    ELSE ""

\* the message of the ValueError of the inner try, "" when there is none
HorizonError(horizon_str) ==
    IF ~IsIntLiteral(horizon_str)
    THEN "Invalid horizon parameter: invalid literal for int() with base 10"
    ELSE IF IntOf(horizon_str) <= 0
    THEN "Invalid horizon parameter: Horizon must be positive"
    ELSE IF IntOf(horizon_str) > MaxHorizon
    THEN "Invalid horizon parameter: Horizon cannot exceed 365 days"
    ELSE ""

\* (mutant) every failure of the use case answered as a server error
CashflowResponseAllServerErrors(result) ==
    IF result.kind = "returned" THEN Ok(result.result, 200)
    ELSE ServerError("Failed to forecast cashflow")

\* the answer to what uc.execute gave: ok, except ValueError, except Exception
CashflowResponse(result) ==
    IF result.kind = "returned" THEN Ok(result.result, 200)
    ELSE IF result.error = "ValueError" THEN BadRequest(result.message)
    ELSE ServerError("Failed to forecast cashflow")

\* handler(event, context) of GET /agent/tools/cashflow, the use case and its
\* repository call included; horizon is the text of the query parameter
CashflowHandler(horizon, repoFails) ==
    /\ pc = "idle"
    /\ pc' = "done"
    /\ call' = [op |-> "cashflowHandler", horizon |-> horizon]
    /\ LET horizon_str == ParamOr(horizon, DefaultHorizon)
           error == HorizonError(horizon_str)
           horizon_days == IntOf(horizon_str)
           lookback_days == LookbackDays(horizon_days)
           result == IF repoFails THEN RepoFailure
                     ELSE ForecastOutcome(horizon_days, GetSalesSeries(lookback_days))
       IN  IF error # ""
           THEN /\ outcome' = BadRequest(error)
                /\ invoked' = <<>>
                /\ repoCalls' = <<>>
                /\ raised' = <<>>
           ELSE /\ outcome' = CashflowResponse(result)
                /\ invoked' = <<[unit |-> "CashflowForecastUC.execute",
                                 horizon_days |-> horizon_days]>>
                /\ repoCalls' = <<lookback_days>>
                /\ raised' = IF repoFails THEN <<RepoFailure>> ELSE <<>>
    /\ UNCHANGED <<sales, kpis, actions, rawSales, now, actionCalls, kpiCalls,
                   invocations, seeded>>

----------------------------------------------------------------------------
\* handlers/detect_anomalies.py

DefaultPeriod == LastD(<<"6", "0">>)
DefaultThreshold == <<"2", ".", "0">>

\* where the point of a decimal text stands, 0 when it has none
PointAt(body) ==
    IF \E i \in 1..Len(body) : body[i] = "."
    THEN CHOOSE i \in 1..Len(body) : body[i] = "." /\ \A j \in 1..(i - 1) : body[j] # "."
    ELSE 0

\* body without its first point
WithoutPoint(body) ==
    IF PointAt(body) = 0 THEN body
    ELSE SubSeq(body, 1, PointAt(body) - 1) \o SubSeq(body, PointAt(body) + 1, Len(body))

RECURSIVE PowerOfTen(_)
PowerOfTen(n) == IF n = 0 THEN 1 ELSE 10 * PowerOfTen(n - 1)

\* float(s) accepts: blanks around, one sign, then digits with at most one point
\* among them ("2", "2.", ".5", "-1.0"); exponents, underscores, inf and nan are
\* outside the texts explored
IsFloatLiteral(s) ==
    LET digits == WithoutPoint(Unsigned(Strip(s)))
    IN  /\ digits # <<>>
        /\ \A i \in 1..Len(digits) : IsDigit(digits[i])

\* float(s) for an s that IsFloatLiteral, as the fraction num/den
FloatOf(s) ==
    LET t == Strip(s)
        body == Unsigned(t)
        value == DigitsValue(WithoutPoint(body))
        places == IF PointAt(body) = 0 THEN 0 ELSE Len(body) - PointAt(body)
    IN  [num |-> IF Head(t) = "-" THEN -value ELSE value, den |-> PowerOfTen(places)]

\* the message of the ValueError of the inner try, "" when there is none
ThresholdError(threshold_str) ==
    IF ~IsFloatLiteral(threshold_str)
    THEN "Invalid threshold parameter: could not convert string to float"
    ELSE IF FloatOf(threshold_str).num <= 0
    THEN "Invalid threshold parameter: Threshold must be positive"
    ELSE ""

\* the answer to what uc.execute gave: ok, except ValueError, except Exception
AnomaliesResponse(result) ==
    IF result.kind = "returned" THEN Ok(result.result, 200)
    ELSE IF result.error = "ValueError" THEN BadRequest(result.message)
    ELSE ServerError("Failed to detect anomalies")

\* handler(event, context) of GET /agent/tools/anomalies, the use case and its
\* repository call included; period and threshold are the texts of the query
\* parameters
AnomaliesHandler(period_param, threshold_param, repoFails) ==
    /\ pc = "idle"
    /\ pc' = "done"
    /\ call' = [op |-> "anomaliesHandler", period |-> period_param,
                threshold |-> threshold_param]
    /\ LET period == ParamOr(period_param, DefaultPeriod)
           threshold_str == ParamOr(threshold_param, DefaultThreshold)
           error == ThresholdError(threshold_str)
           threshold == FloatOf(threshold_str)
           days == ParsePeriodDays(period)
           result == IF repoFails THEN RepoFailure
                     ELSE DetectOutcome(period, threshold, GetSalesSeries(days))
       IN  IF error # ""
           THEN /\ outcome' = BadRequest(error)
                /\ invoked' = <<>>
                /\ repoCalls' = <<>>
                /\ raised' = <<>>
           ELSE /\ outcome' = AnomaliesResponse(result)
                /\ invoked' = <<[unit |-> "DetectAnomaliesUC.execute",
                                 period |-> period, threshold |-> threshold]>>
                /\ repoCalls' = <<days>>
                /\ raised' = IF repoFails THEN <<RepoFailure>> ELSE <<>>
    /\ UNCHANGED <<sales, kpis, actions, rawSales, now, actionCalls, kpiCalls,
                   invocations, seeded>>

----------------------------------------------------------------------------
\* handlers/list_actions.py

DefaultLimit == <<"5", "0">>
MaxLimit == 100

\* the message of the ValueError of the inner try, "" when there is none
LimitError(limit_str) ==
    IF ~IsIntLiteral(limit_str)
    THEN "Invalid limit parameter: invalid literal for int() with base 10"
    ELSE IF IntOf(limit_str) <= 0
    THEN "Invalid limit parameter: Limit must be positive"
    ELSE ""

\* (mutant) the limit handed on as it was asked for
RequestedLimit(limit_str) == IntOf(limit_str)

\* if limit > 100: limit = 100
CappedLimit(limit_str) == Min(IntOf(limit_str), MaxLimit)

\* page is what table.scan(..., Limit=n) may read: n items of the table, or all
\* of them when it has fewer, each once, in an order of the store's
IsScanPage(page, n) ==
    LET read == {page[i] : i \in 1..Len(page)}
    IN  /\ Len(page) = Min(n, Cardinality(TableItems))
        /\ read \subseteq TableItems
        /\ Cardinality(read) = Len(page)

\* ListActionsResponse(actions=[...], count=len(actions)).model_dump()
ListActionsBody(found) == [actions |-> found, count |-> Len(found)]

\* handler(event, context) of GET /agent/actions, the repository call included;
\* limit_param is the text of the query parameter, page what the scan reads
ListActionsHandler(limit_param, page, scanFails) ==
    /\ pc = "idle"
    /\ pc' = "done"
    /\ call' = [op |-> "listActionsHandler", limit |-> limit_param]
    /\ LET limit_str == ParamOr(limit_param, DefaultLimit)
           error == LimitError(limit_str)
           limit == CappedLimit(limit_str)
       IN  IF error # ""
           THEN /\ page = <<>> /\ ~scanFails
                /\ outcome' = BadRequest(error)
                /\ invoked' = <<>>
                /\ raised' = <<>>
           ELSE /\ IsScanPage(page, limit * 2)
                /\ invoked' = <<[unit |-> "DynamoRepo.list_agent_actions",
                                 limit |-> limit]>>
                /\ raised' = IF scanFails THEN <<RepoFailure>> ELSE <<>>
                /\ outcome' =
                       IF scanFails THEN ServerError("Failed to list agent actions")
                       ELSE Ok(ListActionsBody(ListAgentActionsResult(page, limit)),
                               200)
    /\ UNCHANGED <<sales, kpis, actions, rawSales, now, repoCalls, actionCalls,
                   kpiCalls, invocations, seeded>>

----------------------------------------------------------------------------
\* shared/auth.py

\* the event has no requestContext.authorizer.jwt.claims
NoClaims == [missing |-> TRUE]

\* a claim that is a str, and one that is a list of strs
Str(text) == [type |-> "str", text |-> text]
List(items) == [type |-> "list", items |-> items]

\* where the first blank of a text stands, past its end when it has none
FirstBlank(text) ==
    IF \E i \in 1..Len(text) : text[i] = " "
    THEN CHOOSE i \in 1..Len(text) : text[i] = " " /\ \A j \in 1..(i - 1) : text[j] # " "
    ELSE Len(text) + 1

\* text.split(): the runs of characters between the blanks
RECURSIVE Split(_)
Split(text) ==
    IF text = <<>> THEN <<>>
    ELSE IF Head(text) = " " THEN Split(Tail(text))
    ELSE <<SubSeq(text, 1, FirstBlank(text) - 1)>>
             \o Split(SubSeq(text, FirstBlank(text), Len(text)))

\* claims.get("scope", ""), then split() if it is a str, else []
ScopesOf(claims) ==
    LET scope_claim == IF "scope" \in DOMAIN claims THEN claims.scope ELSE Str(<<>>)
    IN  IF scope_claim.type = "str" THEN Split(scope_claim.text) ELSE <<>>

\* (mutant) the scope looked for anywhere in the scope claim
ScopeRefusalUnlessSubstring(claims, required_scope) ==
    IF "missing" \in DOMAIN claims THEN "Missing or invalid JWT claims"
    ELSE IF "scope" \in DOMAIN claims /\ claims.scope.type = "str"
             /\ \E i \in 0..Len(claims.scope.text) :
                    /\ i + Len(required_scope) <= Len(claims.scope.text)
                    /\ SubSeq(claims.scope.text, i + 1, i + Len(required_scope))
                           = required_scope
    THEN ""
    ELSE "Insufficient permissions"

\* the message of the 401 of the wrapper, "" when it lets the request through
ScopeRefusal(claims, required_scope) ==
    IF "missing" \in DOMAIN claims THEN "Missing or invalid JWT claims"
    ELSE IF \E i \in 1..Len(ScopesOf(claims)) : ScopesOf(claims)[i] = required_scope
    THEN ""
    ELSE "Insufficient permissions"

----------------------------------------------------------------------------
\* handlers/create_collection_reminder.py

\* @require_scope("agent:actions")
AgentActions == <<"a", "g", "e", "n", "t", ":", "a", "c", "t", "i", "o", "n", "s">>

\* claims.get("sub", "unknown")
Unknown == <<"u", "n", "k", "n", "o", "w", "n">>
UserId(claims) == IF "sub" \in DOMAIN claims THEN claims.sub ELSE Unknown

\* the validators of invoice_id and remind_date: v.strip() if v else v
StripIfTruthy(v) == IF Falsy(v) THEN v ELSE Strip(v)

\* json.loads and CreateReminderRequest(**body) fail: the text is no JSON, the
\* JSON is no object, or customer_id is missing, null or blank
RequestError(body) ==
    IF body.kind = "malformed" THEN "Expecting value"
    ELSE IF body.kind # "object" THEN "Invalid request body: argument after ** must be a mapping"
    ELSE IF body.customer_id = None THEN "Invalid request body: customer_id: Field required"
    ELSE IF Blank(body.customer_id) THEN "Invalid request body: customer_id cannot be empty"
    ELSE ""

\* the answer to what uc.execute gave: the 201 built from the request, except
\* ValueError, except Exception
ReminderResponse(result, customer_id, invoice_id, remind_date, user_id) ==
    IF result.kind = "returned"
    THEN Ok([action_id |-> result.result, action |-> "collection_reminder",
             customer_id |-> customer_id, invoice_id |-> invoice_id,
             \* request_data.remind_date or ""
             remind_date |-> IF Falsy(remind_date) THEN <<>> ELSE remind_date,
             performed_by |-> user_id], 201)
    ELSE IF result.error = "ValueError" THEN BadRequest(result.message)
    ELSE ServerError("Failed to create collection reminder")

\* wrapper(event, context) of POST /agent/actions/collection-reminder: the scope
\* check, then the handler, its use case and the repository call
ReminderHandler(claims, body, today, action_id, timestamp, sinkFails) ==
    /\ pc = "idle"
    /\ action_id \in FreshIds
    /\ timestamp \in ClockReadings
    /\ pc' = "done"
    /\ call' = [op |-> "reminderHandler", claims |-> claims, body |-> body,
                today |-> today]
    /\ LET refusal == ScopeRefusal(claims, AgentActions)
           user_id == UserId(claims)
           customer_id == Strip(body.customer_id)
           invoice_id == StripIfTruthy(body.invoice_id)
           remind_date == StripIfTruthy(body.remind_date)
           error == ReminderError(customer_id, user_id, remind_date, today)
           calls == ReminderSinkCalls(customer_id, invoice_id, remind_date, user_id,
                                      today)
           result == ReminderOutcome(error, sinkFails, action_id)
       IN  IF refusal # ""
           THEN /\ outcome' = Unauthorized(refusal)
                /\ invoked' = <<>>
                /\ actionCalls' = <<>>
                /\ raised' = <<>>
                /\ UNCHANGED <<actions, now>>
           ELSE IF RequestError(body) # ""
           THEN /\ outcome' = BadRequest(RequestError(body))
                /\ invoked' = <<[unit |-> "handler"]>>
                /\ actionCalls' = <<>>
                /\ raised' = <<>>
                /\ UNCHANGED <<actions, now>>
           ELSE /\ outcome' = ReminderResponse(result, customer_id, invoice_id,
                                               remind_date, user_id)
                /\ invoked' = <<[unit |-> "handler"],
                                [unit |-> "CreateCollectionReminderUC.execute",
                                 customer_id |-> customer_id,
                                 performed_by |-> user_id,
                                 invoice_id |-> invoice_id,
                                 remind_date |-> remind_date]>>
                /\ actionCalls' = calls
                /\ raised' = IF calls # <<>> /\ sinkFails THEN <<RepoFailure>> ELSE <<>>
                /\ IF calls = <<>> THEN UNCHANGED <<actions, now>>
                   ELSE /\ now' = timestamp
                        /\ actions' = IF sinkFails THEN actions
                                      ELSE PutItem(actions,
                                                   ActionItem(action_id, calls[1].action,
                                                              calls[1].payload,
                                                              calls[1].performed_by,
                                                              timestamp))
    /\ UNCHANGED <<sales, kpis, rawSales, repoCalls, kpiCalls, invocations, seeded>>

----------------------------------------------------------------------------
\* tools/seed_data.py: batch_write_items.  One step per turn of its loop.

BatchSize == 25

\* the items handed over: n items, each different from the others
SeedItems(n) == [i \in 1..n |-> i]

\* (mutant) a batch that takes the first item of the next one along
BatchThroughNext(items, i) == SubSeq(items, i + 1, Min(i + BatchSize + 1, Len(items)))

\* items[i:i + batch_size]
Batch(items, i) == SubSeq(items, i + 1, Min(i + BatchSize, Len(items)))

\* batch_write_items(table_name, region, items) is called: the table is looked
\* up, nothing is written yet
BatchWriteItems(n) ==
    /\ pc = "idle"
    /\ pc' = "writing"
    /\ call' = [op |-> "batchWriteItems", items |-> SeedItems(n)]
    /\ UNCHANGED <<sales, kpis, actions, rawSales, now, repoCalls, outcome,
                   actionCalls, kpiCalls, raised, invocations, invoked, seeded>>

\* one turn of the loop: a batch writer is opened and the items of the batch
\* are put into it; it sends them when it has 25 and when it is closed.  When
\* the sending raises ClientError, the store may have taken the first
\* stored items of the batch all the same, and the error is raised again
WriteBatch(writerFails, stored) ==
    /\ pc = "writing"
    /\ call.op = "batchWriteItems"
    /\ Len(invoked) * BatchSize < Len(call.items)
    /\ LET batch == Batch(call.items, Len(invoked) * BatchSize)
       IN  /\ invoked' = Append(invoked, [unit |-> "batch_writer", batch |-> batch])
           /\ IF writerFails
              THEN /\ stored \in 0..(Len(batch) - 1)
                   /\ seeded' = seeded \o SubSeq(batch, 1, stored)
                   /\ raised' = <<RepoFailure>>
                   /\ outcome' = RepoFailure
                   /\ pc' = "done"
              ELSE /\ stored = Len(batch)
                   /\ seeded' = seeded \o batch
                   /\ UNCHANGED <<raised, outcome, pc>>
    /\ UNCHANGED <<sales, kpis, actions, rawSales, now, repoCalls, call,
                   actionCalls, kpiCalls, invocations>>

\* range(0, len(items), batch_size) is exhausted: the function returns None
BatchWriteDone ==
    /\ pc = "writing"
    /\ call.op = "batchWriteItems"
    /\ Len(invoked) * BatchSize >= Len(call.items)
    /\ pc' = "done"
    /\ outcome' = [kind |-> "returned", result |-> None]
    /\ UNCHANGED <<sales, kpis, actions, rawSales, now, repoCalls, call,
                   actionCalls, kpiCalls, raised, invocations, invoked, seeded>>

----------------------------------------------------------------------------
\* the caller has the outcome; the use case holds no state for the next call
Return ==
    /\ pc = "done"
    /\ pc' = "idle"
    /\ call' = [op |-> "none"]
    /\ repoCalls' = <<>>
    /\ outcome' = [kind |-> "none"]
    /\ actionCalls' = <<>>
    /\ kpiCalls' = <<>>
    /\ raised' = <<>>
    /\ invoked' = <<>>
    /\ UNCHANGED <<sales, kpis, actions, rawSales, now, invocations, seeded>>

----------------------------------------------------------------------------

Init ==
    /\ sales \in UNION {[D -> Amounts] : D \in SUBSET Dates}
    /\ pc = "idle"
    /\ call = [op |-> "none"]
    /\ repoCalls = <<>>
    /\ outcome = [kind |-> "none"]
    /\ kpis = <<>>
    /\ actions = {}
    /\ rawSales = <<>>
    /\ now = 0
    /\ actionCalls = <<>>
    /\ kpiCalls = <<>>
    /\ raised = <<>>
    /\ invocations = <<>>
    /\ invoked = <<>>
    /\ seeded = <<>>

Next ==
    \/ \E h \in Horizons, f \in BOOLEAN : Forecast(h, f)
    \/ \E p \in Periods, t \in Thresholds, f \in BOOLEAN : Detect(p, t, f)
    \/ Return

Spec == Init /\ [][Next]_vars

----------------------------------------------------------------------------
\* One call of any of the four use cases

\* The inputs explored
CustomerIds == {None, <<>>, <<" ", " ">>, <<"C", "1">>, <<" ", "C", "1", " ">>}
Performers == {None, <<>>, <<" ">>, <<"u">>, <<"u", " ">>}
InvoiceIds == {None, <<>>, <<" ">>, <<"I", "7">>, <<" ", "I", "7">>}
RemindDates ==
    {None, <<>>, <<" ">>,
     <<"2", "0", "2", "5", "-", "1", "0", "-", "2", "0">>,
     <<"2", "0", "2", "5", "-", "1", "0", "-", "2", "0", "T", "0", "9", ":", "3", "0">>,
     <<"2", "0", "2", "5", "-", "1", "0", "-", "2", "0", " ">>,
     <<"2", "0", "2", "5", "-", "0", "2", "-", "3", "0">>,
     <<"1", "3", "/", "4", "0", "/", "2", "0", "2", "5">>,
     <<"1", "0", "/", "2", "0", "/", "2", "0", "2", "5">>}
UtcDates == {[year |-> 2025, month |-> 10, day |-> 16],
             [year |-> 2024, month |-> 2, day |-> 9]}
KpiPeriods == {"last_30d", "last_90d"}

\* an item some earlier call left in the log
EarlierAction ==
    ActionItem(1, "collection_reminder",
               [customer_id |-> <<"C", "0">>,
                remind_date |-> IsoFormat([year |-> 2025, month |-> 10, day |-> 1])],
               <<"v">>, 0)

\* a snapshot that lacks two of the four fields, and a complete one
PartialSnapshot == [revenue |-> 500, ar_total |-> 70]
FullSnapshot ==
    [revenue |-> 900, gross_margin |-> 300, ar_total |-> 120, ar_over_60 |-> 40]

InitCalls ==
    /\ sales \in {[d \in D |-> 100] : D \in {{}, {Today}, {Today - 1, Today}}}
    /\ pc = "idle"
    /\ call = [op |-> "none"]
    /\ repoCalls = <<>>
    /\ outcome = [kind |-> "none"]
    /\ kpis \in {<<>>, [p \in {"last_30d"} |-> PartialSnapshot],
                 [p \in KpiPeriods |->
                     IF p = "last_30d" THEN PartialSnapshot ELSE FullSnapshot]}
    /\ actions \in {{}, {EarlierAction}}
    /\ rawSales = <<>>
    /\ now = 0
    /\ actionCalls = <<>>
    /\ kpiCalls = <<>>
    /\ raised = <<>>
    /\ invocations = <<>>
    /\ invoked = <<>>
    /\ seeded = <<>>

NextCalls ==
    \/ \E h \in Horizons, f \in BOOLEAN : Forecast(h, f)
    \/ \E p \in Periods, t \in Thresholds, f \in BOOLEAN : Detect(p, t, f)
    \/ /\ pc = "idle"
       /\ \E c \in CustomerIds, i \in InvoiceIds, r \in RemindDates, p \in Performers,
             today \in UtcDates, id \in FreshIds, ts \in ClockReadings, f \in BOOLEAN :
             CreateReminder(c, i, r, p, today, id, ts, f)
    \/ \E p \in KpiPeriods, f \in BOOLEAN : GetKpis(p, f)

SpecCalls == InitCalls /\ [][NextCalls]_vars

----------------------------------------------------------------------------
\* The action log under a sequence of repository calls

\* The inputs explored
ActionKinds == {"collection_reminder"}
ActionPayloads == {[customer_id |-> <<"C", "1">>, invoice_id |-> <<"I", "7">>]}
Limits == {1, 2}

InitLog ==
    /\ sales \in {[d \in D |-> 100] : D \in {{}, {Today}}}
    /\ pc = "idle"
    /\ call = [op |-> "none"]
    /\ repoCalls = <<>>
    /\ outcome = [kind |-> "none"]
    /\ kpis = <<>>
    /\ actions = {}
    /\ rawSales = <<>>
    /\ now = 0
    /\ actionCalls = <<>>
    /\ kpiCalls = <<>>
    /\ raised = <<>>
    /\ invocations = <<>>
    /\ invoked = <<>>
    /\ seeded = <<>>

NextLog ==
    \/ /\ pc = "idle"
       /\ \E a \in ActionKinds, p \in ActionPayloads, id \in FreshIds,
             ts \in ClockReadings, f \in BOOLEAN :
             CreateAgentAction(a, p, <<"u">>, id, ts, f)
    \/ /\ pc = "idle"
       /\ \E limit \in Limits, f \in BOOLEAN :
             \E page \in ScanPages(limit * 2) : ListAgentActions(limit, page, f)
    \/ Return

SpecLog == InitLog /\ [][NextLog]_vars

----------------------------------------------------------------------------
\* Concurrent reminders

\* The inputs explored: the customers of the invocations; the other arguments
\* are the same for all
ConcurrentCustomers == {<<" ">>, <<"C", "1">>, <<" ", "C", "2">>}

InitConcurrent ==
    /\ sales = <<>>
    /\ pc = "idle"
    /\ call = [op |-> "none"]
    /\ repoCalls = <<>>
    /\ outcome = [kind |-> "none"]
    /\ kpis = <<>>
    /\ actions = {}
    /\ rawSales = <<>>
    /\ now = 0
    /\ actionCalls = <<>>
    /\ kpiCalls = <<>>
    /\ raised = <<>>
    /\ invocations = [i \in Invocations |-> [stage |-> "new"]]
    /\ invoked = <<>>
    /\ seeded = <<>>

NextConcurrent ==
    \/ \E i \in Invocations, c \in ConcurrentCustomers :
          Begin(i, c, None, None, <<"u">>, [year |-> 2025, month |-> 10, day |-> 16])
    \/ \E i \in Invocations, id \in ActionIds, ts \in 0..MaxActions : Stamp(i, id, ts)
    \/ \E i \in Invocations, f \in BOOLEAN : Put(i, f)

SpecConcurrent == InitConcurrent /\ [][NextConcurrent]_vars

----------------------------------------------------------------------------
\* get_sales_series over stored items

\* Bounds of the stored items
MaxStored == 3      \* SALES# items in the table

\* a date written without the zeros that fill month and day
Unfilled(date) ==
    ZeroFill(date.year, 4) \o <<"-">>
        \o (IF date.month < 10 THEN ZeroFill(date.month, 1) ELSE ZeroFill(date.month, 2))
        \o <<"-">>
        \o (IF date.day < 10 THEN ZeroFill(date.day, 1) ELSE ZeroFill(date.day, 2))

October(day) == [year |-> 2025, month |-> 10, day |-> day]

\* The inputs explored: keys for today and yesterday, filled and unfilled, for
\* days before them and the day after, and keys that are no dates
StoredDateTexts ==
    {IsoFormat(October(Today)), Unfilled(October(Today)),
     IsoFormat(October(Today - 1)), Unfilled(October(Today - 1)),
     IsoFormat(October(Today - 3)), IsoFormat(October(Today + 1)),
     IsoFormat([year |-> 2025, month |-> 9, day |-> 30]),
     <<"2", "0", "2", "5", "-", "1", "0", "-", "x">>,
     <<"2", "0", "2", "5", "-", "1", "3", "-", "0", "1">>}
StoredAmounts == {100, 199}
StoredDays == {1, 2, NumDays, 60}

InitSeries ==
    /\ sales = <<>>
    /\ pc = "idle"
    /\ call = [op |-> "none"]
    /\ repoCalls = <<>>
    /\ outcome = [kind |-> "none"]
    /\ kpis = <<>>
    /\ actions = {}
    /\ rawSales \in UNION {[T -> StoredAmounts] :
                             T \in {S \in SUBSET StoredDateTexts :
                                       Cardinality(S) <= MaxStored}}
    /\ now = 0
    /\ actionCalls = <<>>
    /\ kpiCalls = <<>>
    /\ raised = <<>>
    /\ invocations = <<>>
    /\ invoked = <<>>
    /\ seeded = <<>>

NextSeries ==
    \/ \E days \in StoredDays, f \in BOOLEAN : GetSalesSeriesCall(days, f)
    \/ Return

SpecSeries == InitSeries /\ [][NextSeries]_vars

----------------------------------------------------------------------------
\* Sequences of the calls that read: forecast, detect, GetKPIs, get_sales_series
\* and list_agent_actions, over a table that has sales, a snapshot and an action

\* the SALES# items as stored, for the calls of get_sales_series
ReadStored ==
    [t \in {IsoFormat(October(Today)), IsoFormat(October(Today - 1))} |-> 100]

InitReads ==
    /\ sales \in {[d \in D |-> 100] : D \in {{}, {Today - 1, Today}}}
    /\ pc = "idle"
    /\ call = [op |-> "none"]
    /\ repoCalls = <<>>
    /\ outcome = [kind |-> "none"]
    /\ kpis \in {<<>>, [p \in {"last_30d"} |-> PartialSnapshot]}
    /\ actions \in {{}, {EarlierAction}}
    /\ rawSales \in {<<>>, ReadStored}
    /\ now = 0
    /\ actionCalls = <<>>
    /\ kpiCalls = <<>>
    /\ raised = <<>>
    /\ invocations = <<>>
    /\ invoked = <<>>
    /\ seeded = <<>>

NextReads ==
    \/ \E h \in Horizons, f \in BOOLEAN : Forecast(h, f)
    \/ \E p \in {LastD(<<"2">>), LastD(<<"0">>), LastD(<<"x">>)}, t \in Thresholds,
          f \in BOOLEAN : Detect(p, t, f)
    \/ \E p \in KpiPeriods, f \in BOOLEAN : GetKpis(p, f)
    \/ \E days \in StoredDays, f \in BOOLEAN : GetSalesSeriesCall(days, f)
    \/ /\ pc = "idle"
       /\ \E limit \in Limits, f \in BOOLEAN :
             \E page \in ScanPages(limit * 2) : ListAgentActions(limit, page, f)
    \/ Return

SpecReads == InitReads /\ [][NextReads]_vars

----------------------------------------------------------------------------
\* Requests to GET /agent/actions over a log that is empty, has one action, or
\* has more actions than the handler ever returns

\* the number of actions of the long log
ManyStored == 102

\* the i-th action of the long log, recorded at tick i
StoredAction(i) ==
    ActionItem(MaxActions + 1 + i, "collection_reminder",
               [customer_id |-> <<"C", "0">>,
                remind_date |-> IsoFormat([year |-> 2025, month |-> 10, day |-> 1])],
               <<"v">>, i)

\* the limit parameters explored; None: the request has no limit
LimitTexts ==
    {None, <<"1">>, <<"2">>, <<"1", "0", "0">>, <<"1", "0", "1">>, <<"1", "5", "0">>,
     <<"0">>, <<"-", "3">>, <<"+", "3">>, <<" ", "7">>, <<"2", ".", "5">>,
     <<"a", "b", "c">>, <<>>}

\* the items in the order of their action ids
ByActionId(items) ==
    [i \in 1..Cardinality(items) |->
        CHOOSE a \in items :
            Cardinality({b \in items : b.action_id < a.action_id}) = i - 1]

Reverse(seq) == [i \in 1..Len(seq) |-> seq[Len(seq) + 1 - i]]

\* two of the orders the store may keep the log in, cut to the n items of a scan
PagesExplored(n) ==
    LET len == Min(n, Cardinality(actions))
    IN  {SubSeq(order, 1, len) : order \in {ByActionId(actions), Reverse(ByActionId(actions))}}

InitListActions ==
    /\ sales = <<>>
    /\ pc = "idle"
    /\ call = [op |-> "none"]
    /\ repoCalls = <<>>
    /\ outcome = [kind |-> "none"]
    /\ kpis = <<>>
    /\ actions \in {{}, {EarlierAction}, {EarlierAction, StoredAction(1)},
                    {StoredAction(i) : i \in 1..3},
                    {StoredAction(i) : i \in 1..ManyStored}}
    /\ rawSales = <<>>
    /\ now = 0
    /\ actionCalls = <<>>
    /\ kpiCalls = <<>>
    /\ raised = <<>>
    /\ invocations = <<>>
    /\ invoked = <<>>
    /\ seeded = <<>>

NextListActions ==
    \/ /\ pc = "idle"
       /\ \E l \in LimitTexts, f \in BOOLEAN :
             \E page \in IF LimitError(ParamOr(l, DefaultLimit)) # "" THEN {<<>>}
                          ELSE PagesExplored(CappedLimit(ParamOr(l, DefaultLimit)) * 2) :
                 ListActionsHandler(l, page, f)
    \/ Return

SpecListActions == InitListActions /\ [][NextListActions]_vars

----------------------------------------------------------------------------
\* One request to the cashflow, the anomalies or the collection-reminder handler

HorizonTexts ==
    {None, <<"1">>, <<"3", "6", "5">>, <<"3", "6", "6">>, <<"1", "0", "0", "0">>,
     <<"0">>, <<"-", "7">>, <<"+", "7">>, <<" ", "7">>, <<"7", ".", "5">>,
     <<"a", "b", "c">>, <<>>}

PeriodTexts == {None, LastD(<<"2">>), LastD(<<"0">>), <<"w", "e", "e", "k">>}

ThresholdTexts ==
    {None, <<"1", ".", "5">>, <<"0", ".", "0", "0", "1">>, <<"3">>, <<"0">>,
     <<"0", ".", "0">>, <<"-", "1">>, <<"a", "b", "c">>, <<>>}

Read == <<"r", "e", "a", "d">>

\* the JWT claims explored
ClaimsTexts ==
    {NoClaims,
     [sub |-> <<"u">>],
     [sub |-> <<"u">>, scope |-> Str(<<>>)],
     [sub |-> <<"u">>, scope |-> Str(Read)],
     [sub |-> <<"u">>, scope |-> Str(AgentActions \o <<"X">>)],
     [sub |-> <<"u">>, scope |-> Str(SubSeq(AgentActions, 1, 5))],
     [sub |-> <<"u">>, scope |-> List(<<AgentActions>>)],
     [sub |-> <<"u">>, scope |-> Str(AgentActions)],
     [sub |-> <<"u", " ">>, scope |-> Str(Read \o <<" ", " ">> \o AgentActions)],
     [sub |-> <<" ">>, scope |-> Str(AgentActions \o <<" ">> \o Read)],
     [scope |-> Str(AgentActions)]}

\* the request bodies explored
Bodies ==
    {[kind |-> "malformed"], [kind |-> "array"]}
        \cup [kind : {"object"},
              customer_id : {None, <<" ">>, <<" ", "C", "1">>},
              invoice_id : {None, <<" ">>, <<"I", "7", " ">>},
              remind_date : {None, <<>>,
                             <<"2", "0", "2", "5", "-", "1", "0", "-", "2", "0", " ">>,
                             <<"1", "0", "/", "2", "0", "/", "2", "0", "2", "5">>}]

\* the UTC date of the requests
RequestDate == [year |-> 2025, month |-> 10, day |-> 16]

InitHandlers ==
    /\ sales \in {[d \in D |-> 100] : D \in {{}, {Today}, {Today - 1, Today}}}
    /\ pc = "idle"
    /\ call = [op |-> "none"]
    /\ repoCalls = <<>>
    /\ outcome = [kind |-> "none"]
    /\ kpis = <<>>
    /\ actions \in {{}, {EarlierAction}}
    /\ rawSales = <<>>
    /\ now = 0
    /\ actionCalls = <<>>
    /\ kpiCalls = <<>>
    /\ raised = <<>>
    /\ invocations = <<>>
    /\ invoked = <<>>
    /\ seeded = <<>>

NextHandlers ==
    \/ \E h \in HorizonTexts, f \in BOOLEAN : CashflowHandler(h, f)
    \/ \E p \in PeriodTexts, t \in ThresholdTexts, f \in BOOLEAN :
           AnomaliesHandler(p, t, f)
    \/ /\ pc = "idle"
       /\ \E c \in ClaimsTexts, b \in Bodies, a \in FreshIds, ts \in ClockReadings,
             f \in BOOLEAN :
                 ReminderHandler(c, b, RequestDate, a, ts, f)

SpecHandlers == InitHandlers /\ [][NextHandlers]_vars

----------------------------------------------------------------------------
\* One run of batch_write_items on an empty table

\* the longest list handed over: two full batches and one item more
MaxSeedItems == 51

InitSeed ==
    /\ sales = <<>>
    /\ pc = "idle"
    /\ call = [op |-> "none"]
    /\ repoCalls = <<>>
    /\ outcome = [kind |-> "none"]
    /\ kpis = <<>>
    /\ actions = {}
    /\ rawSales = <<>>
    /\ now = 0
    /\ actionCalls = <<>>
    /\ kpiCalls = <<>>
    /\ raised = <<>>
    /\ invocations = <<>>
    /\ invoked = <<>>
    /\ seeded = <<>>

NextSeed ==
    \/ \E n \in 0..MaxSeedItems : BatchWriteItems(n)
    \/ \E f \in BOOLEAN, k \in 0..BatchSize : WriteBatch(f, k)
    \/ BatchWriteDone

SpecSeed == InitSeed /\ [][NextSeed]_vars

----------------------------------------------------------------------------
\* What the properties below speak about

ForecastDone == pc = "done" /\ call.op = "forecast"
DetectDone == pc = "done" /\ call.op = "detect"

\* the source itself failed (its error reached the caller)
SourceFailed == outcome.kind = "raised" /\ outcome.error = "ClientError"
InsufficientData == outcome.kind = "raised" /\ outcome.error = "ValueError"
Returned == outcome.kind = "returned"

\* the dates of the points the source handed to this call: the stored dates among
\* the last repoCalls[1] days
ReturnedDates == {d \in DOMAIN sales : Today - d < repoCalls[1]}
PointsReturned == Cardinality(ReturnedDates)

RECURSIVE SumOfAmounts(_)
SumOfAmounts(ds) ==
    IF ds = {} THEN 0
    ELSE LET d == CHOOSE x \in ds : TRUE IN sales[d] + SumOfAmounts(ds \ {d})

\* n * (amount of date d - mean of the returned amounts)
ScaledDeviation(d) == PointsReturned * sales[d] - SumOfAmounts(ReturnedDates)

RECURSIVE SumOfSquaredDeviations(_)
SumOfSquaredDeviations(ds) ==
    IF ds = {} THEN 0
    ELSE LET d == CHOOSE x \in ds : TRUE
         IN  ScaledDeviation(d) * ScaledDeviation(d) + SumOfSquaredDeviations(ds \ {d})

DistinctAmounts == Cardinality({sales[d] : d \in ReturnedDates})

\* |z| > threshold for the point of date d, z = (amount - mean) / s, s^2 the sum of
\* squared deviations over n - 1:  z^2 = dev^2 * (n - 1) / sum of dev^2
AbsZAbove(d, threshold) ==
    RatGreater(ScaledDeviation(d) * ScaledDeviation(d) * (PointsReturned - 1),
               SumOfSquaredDeviations(ReturnedDates),
               threshold.num * threshold.num, threshold.den * threshold.den)

AbsZBelow(d, threshold) ==
    RatGreater(threshold.num * threshold.num, threshold.den * threshold.den,
               ScaledDeviation(d) * ScaledDeviation(d) * (PointsReturned - 1),
               SumOfSquaredDeviations(ReturnedDates))

AnomalyDates == {outcome.result.anomalies[i].date : i \in 1..Len(outcome.result.anomalies)}

----------------------------------------------------------------------------
\* C1: every forecast makes exactly one get_sales_series call, with
\* days = max(2 * horizon_days, 60): the larger of the two, and one of them.
C1_LookbackRequested ==
    ForecastDone =>
        /\ Len(repoCalls) = 1
        /\ repoCalls[1] >= 2 * call.horizon_days
        /\ repoCalls[1] >= 60
        /\ repoCalls[1] \in {2 * call.horizon_days, 60}

\* horizon 90 asked for 180 days
C1_Witness == ForecastDone /\ call.horizon_days = 90 /\ repoCalls = <<180>>

\* C2: for a non-empty series of N points, average_daily_cashflow is the mean of all
\* N amounts rounded to 2 decimals (the hundredth nearest to sum/N),
\* historical_period_days is N and forecast_days is the horizon given.
C2_AverageOfAllPoints ==
    (ForecastDone /\ ~SourceFailed /\ PointsReturned >= 1) =>
        /\ Returned
        /\ 2 * Abs(PointsReturned * outcome.result.average_daily_cashflow
                   - 100 * SumOfAmounts(ReturnedDates)) <= PointsReturned
        /\ outcome.result.historical_period_days = PointsReturned
        /\ outcome.result.forecast_days = call.horizon_days

\* 3 points, far fewer than the 60 days asked for, with a mean that needs rounding
C2_Witness ==
    /\ ForecastDone /\ Returned
    /\ repoCalls[1] > PointsReturned
    /\ outcome.result.historical_period_days = 3
    /\ outcome.result.average_daily_cashflow = 9967

\* C3 as claimed: total_forecast is the average_daily_cashflow of the record (already
\* rounded) times horizon_days, rounded to 2 decimals; historical_period_days is N.
\* (In hundredths the product is a whole number, so the rounding changes nothing.)
C3_TotalFromReportedAverage ==
    (ForecastDone /\ Returned) =>
        /\ outcome.result.total_forecast
               = outcome.result.average_daily_cashflow * call.horizon_days
        /\ outcome.result.historical_period_days = PointsReturned

\* C3 amended: total_forecast is the mean of the N amounts, not rounded, times
\* horizon_days, rounded to 2 decimals (the hundredth nearest to sum * horizon / N);
\* historical_period_days is N.
C3_TotalFromMean ==
    (ForecastDone /\ Returned) =>
        /\ 2 * Abs(PointsReturned * outcome.result.total_forecast
                   - 100 * SumOfAmounts(ReturnedDates) * call.horizon_days)
               <= PointsReturned
        /\ outcome.result.historical_period_days = PointsReturned

\* a record whose total is not its own average times the horizon
C3_Witness ==
    /\ ForecastDone /\ Returned
    /\ outcome.result.total_forecast
           # outcome.result.average_daily_cashflow * call.horizon_days

\* C4: when the source returns an empty series, forecast fails with ValueError
\* 'No historical sales data available for forecast' and returns no record.
C4_EmptySeriesFails ==
    (ForecastDone /\ ~SourceFailed /\ PointsReturned = 0) =>
        /\ InsufficientData
        /\ outcome.message = "No historical sales data available for forecast"

C4_Witness == ForecastDone /\ sales = <<>> /\ InsufficientData

\* C5: for a series with at least 2 distinct amounts, a point is in the anomalies
\* list if and only if |z| > threshold (strictly), z taken with the sample standard
\* deviation of the whole series; no point is listed twice.
C5_AnomalousIffAboveThreshold ==
    (DetectDone /\ Returned /\ DistinctAmounts >= 2) =>
        /\ \A d \in ReturnedDates : d \in AnomalyDates <=> AbsZAbove(d, call.threshold)
        /\ AnomalyDates \subseteq ReturnedDates
        /\ Cardinality(AnomalyDates) = Len(outcome.result.anomalies)

\* a series with a point whose |z| is exactly the threshold (left out) beside a point
\* above it (listed)
C5_Witness ==
    /\ DetectDone /\ Returned /\ DistinctAmounts >= 2
    /\ \E d \in ReturnedDates :
           ~AbsZAbove(d, call.threshold) /\ ~AbsZBelow(d, call.threshold)
    /\ outcome.result.anomalies # <<>>

\* C6 as claimed: each anomaly has deviation "high" if and only if its reported
\* z_score field is > 0, and "low" otherwise.
C6_DeviationFromReportedZ ==
    (DetectDone /\ Returned) =>
        \A i \in 1..Len(outcome.result.anomalies) :
            LET a == outcome.result.anomalies[i]
            IN  /\ a.deviation \in {"high", "low"}
                /\ a.deviation = "high" <=> a.z_score > 0

\* C6 amended: each anomaly has deviation "high" if and only if its z-score before
\* rounding is > 0, that is its amount is above the mean of the series, and "low"
\* otherwise.
C6_DeviationFromZ ==
    (DetectDone /\ Returned) =>
        \A i \in 1..Len(outcome.result.anomalies) :
            LET a == outcome.result.anomalies[i]
            IN  /\ a.deviation \in {"high", "low"}
                /\ a.deviation = "high" <=> ScaledDeviation(a.date) > 0

\* an anomaly reported with z_score 0.0 and deviation "high"
C6_Witness ==
    /\ DetectDone /\ Returned
    /\ \E i \in 1..Len(outcome.result.anomalies) :
           /\ outcome.result.anomalies[i].z_score = 0
           /\ outcome.result.anomalies[i].deviation = "high"

\* C7 as claimed: the anomalies are in descending order of |z|, z the z-score of the
\* point, and anomalies of equal |z| keep the order of the input series.
C7_SortedByZ ==
    (DetectDone /\ Returned) =>
        \A i, j \in 1..Len(outcome.result.anomalies) :
            i < j =>
                LET a == outcome.result.anomalies[i]
                    b == outcome.result.anomalies[j]
                IN  /\ Abs(ScaledDeviation(a.date)) >= Abs(ScaledDeviation(b.date))
                    /\ Abs(ScaledDeviation(a.date)) = Abs(ScaledDeviation(b.date))
                           => a.date < b.date

\* C7 amended: the anomalies are in descending order of the magnitude of the
\* reported z_score (z rounded to 2 decimals), and anomalies of equal reported
\* magnitude keep the order of the input series.
C7_SortedByReportedZ ==
    (DetectDone /\ Returned) =>
        \A i, j \in 1..Len(outcome.result.anomalies) :
            i < j =>
                LET a == outcome.result.anomalies[i]
                    b == outcome.result.anomalies[j]
                IN  /\ Abs(a.z_score) >= Abs(b.z_score)
                    /\ Abs(a.z_score) = Abs(b.z_score) => a.date < b.date

\* two anomalies with the same reported magnitude, the later one the more extreme
C7_Witness ==
    /\ DetectDone /\ Returned
    /\ \E i, j \in 1..Len(outcome.result.anomalies) :
           /\ i < j
           /\ Abs(outcome.result.anomalies[i].z_score)
                  = Abs(outcome.result.anomalies[j].z_score)
           /\ Abs(ScaledDeviation(outcome.result.anomalies[i].date))
                  < Abs(ScaledDeviation(outcome.result.anomalies[j].date))

\* C8: N >= 2 points with identical amounts give, without error, std_dev 0, no
\* anomalies, anomaly_count 0 and total_days N, whatever the threshold.
C8_IdenticalAmounts ==
    (DetectDone /\ ~SourceFailed /\ PointsReturned >= 2 /\ DistinctAmounts = 1) =>
        /\ Returned
        /\ outcome.result.std_dev = 0
        /\ outcome.result.anomalies = <<>>
        /\ outcome.result.anomaly_count = 0
        /\ outcome.result.total_days = PointsReturned

\* two identical points under the smallest threshold
C8_Witness ==
    /\ DetectDone /\ Returned
    /\ PointsReturned = 2 /\ DistinctAmounts = 1
    /\ call.threshold = [num |-> 1, den |-> 1000]

\* C9: fewer than 2 points returned make detect fail with the insufficient-data
\* ValueError, and no result is returned, whatever the period and threshold.
C9_FewerThanTwoPoints ==
    (DetectDone /\ ~SourceFailed /\ PointsReturned < 2) =>
        /\ InsufficientData
        /\ outcome.message
               = "Insufficient data for anomaly detection (need at least 2 days)"

\* exactly one point came back
C9_Witness == DetectDone /\ PointsReturned = 1 /\ InsufficientData

\* the exact shape last_<N>d: "last_", one or more decimal digits, "d"
HasPeriodShape(period) ==
    /\ StartsWith(period, LastPrefix)
    /\ EndsWith(period, <<"d">>)
    /\ Len(period) > 6
    /\ \A i \in 6..(Len(period) - 1) : IsDigit(period[i])

\* C10: detect asks the source for N days when the period is last_<N>d, and for 60
\* days for any other string, malformed numbers included.
C10_PeriodOrDefault ==
    DetectDone =>
        /\ Len(repoCalls) = 1
        /\ repoCalls[1] = IF HasPeriodShape(call.period)
                          THEN DigitsValue(SubSeq(call.period, 6, Len(call.period) - 1))
                          ELSE 60

----------------------------------------------------------------------------
\* What the properties of the reminder use case speak about

ReminderDone == pc = "done" /\ call.op = "createReminder"
KpisDone == pc = "done" /\ call.op = "getKpis"

\* a text argument that is missing, empty or nothing but blanks
OnlyBlanks(s) == s = None \/ \A i \in 1..Len(s) : s[i] = " "

\* t is s without the blanks at its two ends
IsTrimOf(t, s) ==
    /\ t # <<>> => t[1] # " " /\ t[Len(t)] # " "
    /\ \E i \in 0..Len(s) :
          /\ i + Len(t) <= Len(s)
          /\ SubSeq(s, i + 1, i + Len(t)) = t
          /\ \A j \in (1..i) \cup ((i + Len(t) + 1)..Len(s)) : s[j] = " "

ValidationFailed == outcome.kind = "raised" /\ outcome.error = "ValueError"
CustomerIdError ==
    ValidationFailed /\ outcome.message = "customer_id is required and cannot be empty"
PerformedByError ==
    ValidationFailed /\ outcome.message = "performed_by is required and cannot be empty"
RemindDateError == ValidationFailed /\ outcome.message = "Invalid remind_date format"

\* the text is the ISO form of the calendar date
IsIsoFormOf(text, date) ==
    /\ Len(text) = 10 /\ text[5] = "-" /\ text[8] = "-"
    /\ AllDigits(SubSeq(text, 1, 4)) /\ DigitsValue(SubSeq(text, 1, 4)) = date.year
    /\ AllDigits(SubSeq(text, 6, 7)) /\ DigitsValue(SubSeq(text, 6, 7)) = date.month
    /\ AllDigits(SubSeq(text, 9, 10)) /\ DigitsValue(SubSeq(text, 9, 10)) = date.day

----------------------------------------------------------------------------
\* C11: createReminder validates in a fixed order.  A customer_id that is missing,
\* empty or only blanks fails with the customer_id error, whatever performed_by
\* is; otherwise such a performed_by fails with the performed_by error; the date
\* is only judged once both have passed.
C11_ValidationOrder ==
    ReminderDone =>
        /\ OnlyBlanks(call.customer_id) => CustomerIdError
        /\ ~OnlyBlanks(call.customer_id) /\ OnlyBlanks(call.performed_by)
              => PerformedByError
        /\ RemindDateError
              => ~OnlyBlanks(call.customer_id) /\ ~OnlyBlanks(call.performed_by)

\* both names invalid, the date invalid too: the customer_id error is the one raised
C11_Witness ==
    /\ ReminderDone
    /\ OnlyBlanks(call.customer_id) /\ OnlyBlanks(call.performed_by)
    /\ call.remind_date = <<"1", "3", "/", "4", "0", "/", "2", "0", "2", "5">>
    /\ CustomerIdError

\* C12: whenever createReminder fails with a validation error (customer_id,
\* performed_by or remind_date), create_agent_action has not been called and the
\* action log is what it was before the call.
C12_ValidationErrorLeavesLog ==
    [][(ReminderDone /\ ValidationFailed)' => actionCalls' = <<>> /\ actions' = actions]_vars

\* a call that failed on its date, with an earlier action in the log
C12_Witness ==
    ReminderDone /\ RemindDateError /\ actions # {} /\ actionCalls = <<>>

\* C13 (as stated): with both names valid, a supplied remind_date that does not
\* parse as an ISO date or datetime fails with the remind_date error; with no
\* remind_date the payload carries today's UTC date in ISO form and the call does
\* not fail on the date.
C13_SuppliedDateMustParse ==
    ReminderDone /\ ~OnlyBlanks(call.customer_id) /\ ~OnlyBlanks(call.performed_by) =>
        /\ call.remind_date # None /\ ~FromIsoFormatAccepts(call.remind_date)
              => RemindDateError
        /\ call.remind_date = None
              => /\ ~ValidationFailed
                 /\ Len(actionCalls) = 1
                 /\ IsIsoFormOf(actionCalls[1].payload.remind_date, call.today)

\* C13 (amended): the same for a supplied remind_date that is not empty; an empty
\* remind_date is treated as a missing one.
C13_NonEmptyDateMustParse ==
    ReminderDone /\ ~OnlyBlanks(call.customer_id) /\ ~OnlyBlanks(call.performed_by) =>
        /\ call.remind_date \notin {None, <<>>} /\ ~FromIsoFormatAccepts(call.remind_date)
              => RemindDateError
        /\ call.remind_date \in {None, <<>>}
              => /\ ~ValidationFailed
                 /\ Len(actionCalls) = 1
                 /\ IsIsoFormOf(actionCalls[1].payload.remind_date, call.today)

\* a malformed date rejected
C13_Witness ==
    /\ ReminderDone
    /\ ~OnlyBlanks(call.customer_id) /\ ~OnlyBlanks(call.performed_by)
    /\ call.remind_date = <<"1", "0", "/", "2", "0", "/", "2", "0", "2", "5">>
    /\ RemindDateError

\* C14: on every successful createReminder, create_agent_action is called exactly
\* once, with the action type "collection_reminder", a payload whose customer_id
\* is the input trimmed, and performed_by trimmed; what createReminder returns is
\* the action id of the call, the id under which the new item went into the log.
C14_SinkCalledOnce ==
    [][(ReminderDone /\ Returned)' =>
          /\ Len(actionCalls') = 1
          /\ actionCalls'[1].action = "collection_reminder"
          /\ IsTrimOf(actionCalls'[1].payload.customer_id, call'.customer_id)
          /\ IsTrimOf(actionCalls'[1].performed_by, call'.performed_by)
          /\ \E a \in actions' \ actions :
                /\ a.action_id = outcome'.result
                /\ a.action = actionCalls'[1].action
                /\ a.payload = actionCalls'[1].payload
                /\ a.performed_by = actionCalls'[1].performed_by]_vars

\* a successful call whose two names had blanks around them
C14_Witness ==
    /\ ReminderDone /\ Returned
    /\ call.customer_id = <<" ", "C", "1", " ">>
    /\ call.performed_by = <<"u", " ">>
    /\ actionCalls[1].payload.customer_id = <<"C", "1">>
    /\ actionCalls[1].performed_by = <<"u">>

\* C15: the payload has the key invoice_id, with the trimmed value, only if an
\* invoice_id was supplied and is not empty; when invoice_id is omitted the key is
\* absent, not null.
C15_InvoiceKeyOnlyIfSupplied ==
    ReminderDone /\ actionCalls # <<>> =>
        LET payload == actionCalls[1].payload
        IN  /\ "invoice_id" \in DOMAIN payload
                  => /\ call.invoice_id \notin {None, <<>>}
                     /\ IsTrimOf(payload.invoice_id, call.invoice_id)
            /\ call.invoice_id = None => DOMAIN payload = {"customer_id", "remind_date"}

\* an invoice_id with a blank before it, stored trimmed
C15_Witness ==
    /\ ReminderDone /\ Returned
    /\ call.invoice_id = <<" ", "I", "7">>
    /\ actionCalls[1].payload.invoice_id = <<"I", "7">>

\* C16: each call of forecast, detect, createReminder or GetKPIs calls the
\* repository at most once; when that call raises, the same error reaches the
\* caller: no second attempt, no result.
C16_OneCallNoRetry ==
    pc = "done" =>
        /\ Len(repoCalls) + Len(actionCalls) + Len(kpiCalls) <= 1
        /\ Len(raised) <= Len(repoCalls) + Len(actionCalls) + Len(kpiCalls)
        /\ raised # <<>> => outcome = raised[1]

\* a reminder whose create_agent_action call raised
C16_Witness ==
    /\ ReminderDone
    /\ Len(actionCalls) = 1 /\ Len(raised) = 1
    /\ outcome.kind = "raised" /\ outcome.error = "ClientError"

----------------------------------------------------------------------------
\* What the properties of the action log speak about

CreateDone == pc = "done" /\ call.op = "createAgentAction"
ListDone == pc = "done" /\ call.op = "listAgentActions"

\* C17: after any sequence of create_agent_action calls the action log holds one
\* record per successful call, each under an action id of its own (pk
\* ACTION#<id>), and no call changes or removes a record an earlier call wrote:
\* every step keeps the records there are, a successful call adds exactly one
\* under the id it returns, a failed call adds none.
C17_OneRecordPerCall ==
    [][/\ actions \subseteq actions'
       /\ \A a, b \in actions' : a.action_id = b.action_id => a = b
       /\ \A a \in actions' : a.pk = <<"ACTION#", a.action_id>>
       /\ (CreateDone /\ Returned)'
             => /\ Cardinality(actions') = Cardinality(actions) + 1
                /\ \E a \in actions' \ actions : a.action_id = outcome'.result
       /\ (CreateDone /\ ~Returned)' => actions' = actions]_vars

\* a third successful call of the same kind of action as an earlier one
C17_Witness ==
    /\ CreateDone /\ Returned
    /\ Cardinality(actions) = 3
    /\ \E a \in actions : a.action_id # outcome.result /\ a.action = call.action

\* the invocations that returned an action id
Succeeded ==
    {i \in Invocations :
        invocations[i].stage = "done" /\ invocations[i].outcome.kind = "returned"}

\* C18: however concurrent createReminder invocations interleave, the log holds
\* exactly one record for each invocation that succeeded, that invocation's own
\* (its action, payload and performed_by, under the id it returned), and nothing
\* else: what the log comes to hold depends on which invocations succeeded and
\* not on their order.
C18_OwnRecordsOnly ==
    /\ Cardinality(actions) = Cardinality(Succeeded)
    /\ \A i \in Succeeded :
          \E a \in actions :
              /\ a.action_id = invocations[i].outcome.result
              /\ a.action = invocations[i].sinkCall.action
              /\ a.payload = invocations[i].sinkCall.payload
              /\ a.performed_by = invocations[i].sinkCall.performed_by

\* two invocations for different customers that read the same clock tick, both
\* recorded
C18_Witness ==
    /\ Succeeded = Invocations
    /\ \E a, b \in actions :
          /\ a.payload.customer_id # b.payload.customer_id
          /\ a.timestamp = b.timestamp

SeriesDone == pc = "done" /\ call.op = "getSalesSeries"

\* the stored keys whose date lies in [today - (days - 1), today]
StoredInWindow(days) ==
    {text \in DOMAIN rawSales :
        /\ StrptimeAccepts(text)
        /\ Ordinal(TodayDate) - (days - 1) <= Ordinal(StrptimeDate(text))
        /\ Ordinal(StrptimeDate(text)) <= Ordinal(TodayDate)}

\* C19: for every days >= 1 and every table content, get_sales_series(days)
\* returns exactly the stored sales points whose date lies in
\* [today - (days - 1), today], in ascending date order with at most one point
\* per date; stored points outside the window and items whose date does not
\* parse are left out.
C19_WindowAscendingOnePerDate ==
    SeriesDone /\ Returned =>
        LET result == outcome.result
        IN  /\ {result[i] : i \in 1..Len(result)}
                  = {[date |-> text, amount |-> rawSales[text]] :
                        text \in StoredInWindow(call.days)}
            /\ Len(result) = Cardinality(StoredInWindow(call.days))
            /\ \A i \in 1..(Len(result) - 1) :
                  Ordinal(StrptimeDate(result[i].date))
                      < Ordinal(StrptimeDate(result[i + 1].date))

\* C20: for every limit >= 1 and every action log, list_agent_actions(limit)
\* returns at most limit actions, ordered by timestamp descending, and they are
\* the most recent ones: no action of the log left out has a later timestamp
\* than one returned.
C20_MostRecentFirst ==
    ListDone /\ Returned =>
        LET result == outcome.result
            returned == {result[i].action_id : i \in 1..Len(result)}
        IN  /\ Len(result) <= call.limit
            /\ \A i \in 1..(Len(result) - 1) :
                  result[i].timestamp >= result[i + 1].timestamp
            /\ \A a \in actions : \A i \in 1..Len(result) :
                  a.action_id \notin returned => a.timestamp <= result[i].timestamp

----------------------------------------------------------------------------
\* C22: get_kpis(period) returns revenue = gross_margin = ar_total =
\* ar_over_60 = 0 when the table holds no snapshot for the period, and that is
\* a return, never an error; when a snapshot exists it returns the snapshot's
\* four values, 0 standing for every field the snapshot lacks.
C22_KpisZeroWhenMissing ==
    KpisDone /\ raised = <<>> =>
        /\ outcome.kind = "returned"
        /\ DOMAIN outcome.result = KpiFields
        /\ \A f \in KpiFields :
              outcome.result[f] =
                  IF call.period \in DOMAIN kpis /\ f \in DOMAIN kpis[call.period]
                  THEN kpis[call.period][f]
                  ELSE 0

\* the snapshot read lacks gross_margin, and the answer has its revenue and a 0
C22_Witness ==
    /\ KpisDone /\ outcome.kind = "returned"
    /\ call.period \in DOMAIN kpis
    /\ "gross_margin" \notin DOMAIN kpis[call.period]
    /\ outcome.result["revenue"] = 500
    /\ outcome.result["gross_margin"] = 0

----------------------------------------------------------------------------
\* C28: whatever the period string, the number of days detect passes to
\* get_sales_series is a positive integer (at least 1), last_0d and last_-5d
\* included.
C28_DaysAtLeastOne ==
    DetectDone => Len(repoCalls) = 1 /\ repoCalls[1] >= 1

\* C29: whenever the payload createReminder passes to the ActionSink has the key
\* invoice_id, its value is a non-empty string without blanks at its ends,
\* whatever invoice_id was supplied, one of blanks only included.
C29_InvoiceIdNonEmptyTrimmed ==
    ReminderDone /\ actionCalls # <<>> =>
        LET payload == actionCalls[1].payload
        IN  "invoice_id" \in DOMAIN payload =>
                /\ payload.invoice_id # <<>>
                /\ payload.invoice_id[1] # " "
                /\ payload.invoice_id[Len(payload.invoice_id)] # " "

----------------------------------------------------------------------------
\* What the properties of the handlers speak about

ListHandlerDone == pc = "done" /\ call.op = "listActionsHandler"
Responded(status_code) == outcome.kind = "response" /\ outcome.statusCode = status_code

\* the text is one int() reads as an integer of at least 1
IsPositiveInteger(text) == IsIntLiteral(text) /\ IntOf(text) >= 1

\* C21: the list-actions handler never returns more than 100 actions, whatever
\* limit is requested: a limit above 100 is replaced by 100 before the
\* repository is called, a limit that is not a positive integer is answered
\* with status 400 without a call of the repository, and the count of the
\* response is the number of actions it returns.
C21_AtMostHundredActions ==
    ListHandlerDone =>
        LET limit_str == ParamOr(call.limit, DefaultLimit)
        IN  /\ ~IsPositiveInteger(limit_str) => Responded(400) /\ invoked = <<>>
            /\ IsPositiveInteger(limit_str) =>
                   /\ Len(invoked) = 1
                   /\ invoked[1].unit = "DynamoRepo.list_agent_actions"
                   /\ invoked[1].limit = Min(IntOf(limit_str), 100)
            /\ Responded(200) =>
                   /\ outcome.body.count = Len(outcome.body.actions)
                   /\ outcome.body.count <= 100

\* 150 actions asked of a log of more than 100: the repository is asked for 100
\* and 100 come back
C21_Witness ==
    /\ ListHandlerDone /\ Responded(200)
    /\ call.limit = <<"1", "5", "0">>
    /\ Cardinality(actions) > 100
    /\ invoked[1].limit = 100
    /\ outcome.body.count = 100

CashflowHandlerDone == pc = "done" /\ call.op = "cashflowHandler"
AnomaliesHandlerDone == pc = "done" /\ call.op = "anomaliesHandler"
ReminderHandlerDone == pc = "done" /\ call.op = "reminderHandler"

\* the event carries claims whose scope claim is a string with the scope
\* agent:actions between blanks or the ends of the string
CarriesAgentActions ==
    /\ "missing" \notin DOMAIN call.claims
    /\ "scope" \in DOMAIN call.claims
    /\ call.claims.scope.type = "str"
    /\ LET text == call.claims.scope.text
           n == Len(AgentActions)
       IN  \E i \in 0..Len(text) :
               /\ i + n <= Len(text)
               /\ SubSeq(text, i + 1, i + n) = AgentActions
               /\ i = 0 \/ text[i] = " "
               /\ i + n = Len(text) \/ text[i + n + 1] = " "

\* C23: a handler wrapped by require_scope(S) runs only when the event carries
\* JWT claims whose space-separated scope string contains S; when the claims are
\* missing, the scope claim is empty or no string, or S is not among the scopes,
\* the wrapper answers 401 and the handler does not run: a request without the
\* scope agent:actions records no collection reminder.
C23_ScopeOrUnauthorized ==
    [][(pc = "idle" /\ ReminderHandlerDone') =>
          IF CarriesAgentActions'
          THEN invoked' # <<>> /\ invoked'[1].unit = "handler" /\ ~Responded(401)'
          ELSE /\ Responded(401)'
               /\ invoked' = <<>>
               /\ actionCalls' = <<>>
               /\ actions' = actions]_vars

\* the scope claim agent:actionsX: refused, although the required scope is part
\* of it
C23_Witness ==
    /\ ReminderHandlerDone /\ Responded(401)
    /\ "scope" \in DOMAIN call.claims
    /\ call.claims.scope = Str(AgentActions \o <<"X">>)
    /\ call.body.kind = "object" /\ call.body.customer_id = <<" ", "C", "1">>
    /\ invoked = <<>>

\* what int() reads the horizon parameter as is an integer from 1 to 365
HorizonInRange(horizon_str) ==
    IsIntLiteral(horizon_str) /\ IntOf(horizon_str) >= 1 /\ IntOf(horizon_str) <= 365

\* C24: the cashflow handler rejects, before any invocation, a horizon that is
\* not an integer, is 0 or negative, or is above 365: the answer is 400 and
\* neither the forecast use case nor the repository is called; the use case is
\* only ever invoked with 1 <= horizon_days <= 365.
C24_HorizonCheckedFirst ==
    CashflowHandlerDone =>
        /\ ~HorizonInRange(ParamOr(call.horizon, DefaultHorizon)) =>
               Responded(400) /\ invoked = <<>> /\ repoCalls = <<>>
        /\ \A i \in 1..Len(invoked) :
               /\ invoked[i].unit = "CashflowForecastUC.execute"
               /\ invoked[i].horizon_days >= 1 /\ invoked[i].horizon_days <= 365
        /\ repoCalls # <<>> => invoked # <<>>

\* a horizon of 366 days, answered 400 with nothing called
C24_Witness ==
    /\ CashflowHandlerDone /\ Responded(400)
    /\ call.horizon = <<"3", "6", "6">>
    /\ invoked = <<>> /\ repoCalls = <<>>

C27_ResponseDateIsStoredDate ==
    ReminderHandlerDone /\ Responded(201) =>
        /\ Len(actionCalls) = 1
        /\ outcome.body.remind_date = actionCalls[1].payload.remind_date

\* C25: no sequence of forecast, detect, get_kpis, get_sales_series and
\* list_agent_actions calls changes the stored table: these operations only
\* read; the sales, the snapshots and the action log are after the calls what
\* they were before.
C25_ReadsLeaveTable ==
    [][UNCHANGED <<sales, rawSales, kpis, actions>>]_vars

\* a snapshot asked for a period the table has none for, the table holding
\* sales and an action
C25_Witness ==
    /\ KpisDone /\ outcome.kind = "returned"
    /\ call.period \notin DOMAIN kpis
    /\ DOMAIN sales # {} /\ actions # {}

----------------------------------------------------------------------------
\* What the property of the seed tool speaks about

Seeding == call.op = "batchWriteItems"

\* the number of batch writers a list of n items takes: n / 25, rounded up
BatchesNeeded(n) == (n + 24) \div 25

\* C30: batch_write_items writes every item of the list once and in the order
\* of the list, in consecutive batches of at most 25 items, opening
\* ceil(len(items) / 25) batch writers (30 items: 2 batches); when a batch fails
\* with ClientError the error reaches the caller, no later batch is started and
\* the batches written before stay written.
C30_BatchesInOrder ==
    Seeding =>
        LET items == call.items
            first(b) == 25 * (b - 1)
        IN  /\ \A b \in 1..Len(invoked) :
                  /\ invoked[b].unit = "batch_writer"
                  /\ Len(invoked[b].batch) \in 1..25
                  /\ first(b) + Len(invoked[b].batch) <= Len(items)
                  /\ \A j \in 1..Len(invoked[b].batch) :
                         invoked[b].batch[j] = items[first(b) + j]
                  /\ b < Len(invoked) => Len(invoked[b].batch) = 25
            /\ (pc = "done" /\ raised = <<>>) =>
                  /\ outcome.kind = "returned"
                  /\ Len(invoked) = BatchesNeeded(Len(items))
                  /\ seeded = items
            /\ raised # <<>> =>
                  /\ pc = "done" /\ outcome = RepoFailure /\ raised = <<RepoFailure>>
                  /\ Len(seeded) >= first(Len(invoked))
                  /\ SubSeq(seeded, 1, first(Len(invoked)))
                         = SubSeq(items, 1, first(Len(invoked)))
                  /\ \A j \in 1..Len(seeded) :
                         \E i \in 1..(25 * Len(invoked)) :
                             i <= Len(items) /\ seeded[j] = items[i]

\* 30 items written by two batch writers, of 25 and of 5 items
C30_Witness ==
    /\ Seeding /\ pc = "done" /\ outcome.kind = "returned"
    /\ Len(call.items) = 30
    /\ Len(invoked) = 2 /\ Len(invoked[2].batch) = 5
    /\ seeded = call.items

\* the second of three batches failed: the first 25 items are in the table,
\* the third batch was never started
C30_FailureWitness ==
    /\ Seeding /\ pc = "done" /\ raised # <<>>
    /\ Len(call.items) = 51
    /\ Len(invoked) = 2
    /\ Len(seeded) = 25

====
